---------------------------- MODULE Spec2Model ----------------------------
(***************************************************************************)
(* A model of jsc_decompiler: the V8 code-cache (.jsc) deserializer, the   *)
(* ignition bytecode disassembler and the pseudo-JS reconstructor.         *)
(*                                                                         *)
(* Unsigned 32-bit words that may exceed 2^31 - 1 are kept as pairs        *)
(* <<hi, lo>> of 16-bit halves; all other integers are plain.              *)
(***************************************************************************)
EXTENDS Integers, Sequences, FiniteSets, TLC

VARIABLES
    call,       \* pure-function harness: the function applied and its inputs
    ret,        \* pure-function harness: the value returned
    done,       \* pure-function harness: TRUE once the function has been applied
    params,             \* reconstruct_js: parameter names of the function's scope
    stack_locals,       \* reconstruct_js: stack-local names of the function's scope
    stack_first_slot,   \* reconstruct_js: first stack-local slot
    acc,                \* reconstruct_js: accumulator text
    acc_prec,           \* reconstruct_js: precedence of the accumulator text
    regs,               \* reconstruct_js: register map, name -> text
    lines,              \* reconstruct_js: statements emitted so far
    ninstr,             \* reconstruct_js: instructions processed so far
    instructions,       \* reconstruct_js: the disassembled instructions, or None while
                        \* each step draws the next instruction
    cp,                 \* reconstruct_js: the constant pool, None or <<items>>
    val_acc,            \* the value the bytecode has in the accumulator (expression tree)
    val_regs,           \* the values the bytecode has in the registers, by operand byte
    exc,             \* reconstruct_js: None, or <<the exception that ended it>>
    args,               \* main: the command-line flags
    data,               \* main: the bytes of the file's header region
    feed,               \* the bytes of the file after the header, not yet consumed
    detector,           \* V8VersionDetector: ver_hashes_32 and ver_hashes_64
    readable,           \* the metadata files of the data directory that can be read
    pc,                 \* the stage the run is in
    exit_status,        \* None while running, else <<status>>
    stderr,             \* messages printed to stderr
    stdout,             \* texts printed to stdout
    version,            \* _run_legacy_pipeline: detected version
    is_32bit,           \* JscParser.is_32bit
    roots,              \* JscParser.roots
    builtins,           \* JscParser.builtins
    pos,                \* BinaryReader.pos
    next_alignment,     \* JscParser.next_alignment
    last_hot_index,     \* JscParser.last_hot_index
    last_chunk_index,   \* JscParser.last_chunk_index
    hots,               \* JscParser.hots
    reserv,             \* JscParser.reserv: space -> ids of its chunks
    heap,               \* the ReservObjects created so far, by id
    stack,              \* the active _read_data calls, innermost last
    event               \* what the last step did (history)

pureVars == <<call, ret, done>>

reconVars ==
    <<params, stack_locals, stack_first_slot, acc, acc_prec, regs, lines, ninstr,
      instructions, cp, val_acc, val_regs, exc>>

mainVars ==
    <<args, data, feed, detector, readable, pc, exit_status, stderr, stdout, version, is_32bit,
      roots, builtins, pos, next_alignment, last_hot_index, last_chunk_index, hots,
      reserv, heap, stack, event>>

vars == <<pureVars, reconVars, mainVars>>

(***************************************************************************)
(* Bounds of the model.                                                    *)
(***************************************************************************)
MaxDenseVarint == 66   \* varints 0..MaxDenseVarint are all tried
MaxPrefix == 1         \* bytes in front of an encoded varint
MaxAddress == 17       \* chunk addresses 0..MaxAddress are all tried
MaxInstr == 4          \* instructions of one reconstructed function

(***************************************************************************)
(* Integer helpers for Python's bit operators.                             *)
(***************************************************************************)
RECURSIVE BitAnd(_, _)
BitAnd(a, b) ==
    IF a = 0 \/ b = 0 THEN 0
    ELSE (a % 2) * (b % 2) + 2 * BitAnd(a \div 2, b \div 2)

ShiftRight(a, n) == a \div (2 ^ n)

ShiftLeft(a, n) == a * (2 ^ n)

\* x & m on 32-bit words held as <<hi, lo>>
And32(x, m) == <<BitAnd(x[1], m[1]), BitAnd(x[2], m[2])>>

\* x >> s on a 32-bit word held as <<hi, lo>>, 0 <= s <= 32
Shr32(x, s) ==
    IF s >= 16
    THEN <<0, x[1] \div (2 ^ (s - 16))>>
    ELSE <<x[1] \div (2 ^ s), (x[2] \div (2 ^ s)) + (x[1] % (2 ^ s)) * (2 ^ (16 - s))>>

\* the integer held by a word below 2^31
ToInt(x) == x[1] * 65536 + x[2]

(***************************************************************************)
(* Text.  A Python str is the sequence of its characters.                  *)
(***************************************************************************)
Digits == <<"0", "1", "2", "3", "4", "5", "6", "7", "8", "9">>

\* Python's "%d" % n for n >= 0
RECURSIVE Dec(_)
Dec(n) == IF n < 10 THEN <<Digits[n + 1]>> ELSE Dec(n \div 10) \o <<Digits[(n % 10) + 1]>>

\* c.isdigit() for one character
IsDigit(c) == \E i \in 1 .. 10 : Digits[i] = c

DigitValue(c) == (CHOOSE i \in 1 .. 10 : Digits[i] = c) - 1

\* str.isdigit(): not empty and all digits
isdigit(s) == Len(s) > 0 /\ \A i \in 1 .. Len(s) : IsDigit(s[i])

\* int(s) for s.isdigit()
RECURSIVE ParseInt(_)
ParseInt(s) ==
    IF Len(s) = 0 THEN 0
    ELSE ParseInt(SubSeq(s, 1, Len(s) - 1)) * 10 + DigitValue(s[Len(s)])

\* s[1:]
Rest(s) == SubSeq(s, 2, Len(s))

(***************************************************************************)
(* BinaryReader (v6/parser.py).  data is the sequence of the file's bytes, *)
(* pos the 0-based cursor.                                                 *)
(***************************************************************************)
\* struct.unpack_from("<I", data, pos): little-endian, as <<hi, lo>>
read_uint32(buf, at) ==
    <<buf[at + 4] * 256 + buf[at + 3], buf[at + 2] * 256 + buf[at + 1]>>

\* _read_int without the mask of the bytes that were rewound
_read_int_NoMask(buf, at) ==
    LET answer == read_uint32(buf, at)
        bytes_count == BitAnd(answer[2], 3) + 1
        newpos == (at + 4) - (4 - bytes_count)
    IN  [value |-> ToInt(Shr32(And32(answer, <<\h7FFF, \hFFFF>>), 2)), pos |-> newpos]

\* JscParser._read_int: the value and the reader position afterwards
_read_int(buf, at) ==
    LET answer == read_uint32(buf, at)
        bytes_count == BitAnd(answer[2], 3) + 1
        newpos == (at + 4) - (4 - bytes_count)
        mask == Shr32(<<\hFFFF, \hFFFF>>, 32 - ShiftLeft(bytes_count, 3))
    IN  [value |-> ToInt(Shr32(And32(answer, mask), 2)), pos |-> newpos]

(***************************************************************************)
(* AllocSpace and the enums of common/enums.py.  from_int returns the      *)
(* member, here <<value>>, or None, here <<>>.                             *)
(***************************************************************************)
NEW_SPACE == 0
OLD_SPACE == 1
CODE_SPACE == 2
MAP_SPACE == 3
LO_SPACE == 4
AllocSpace == {NEW_SPACE, OLD_SPACE, CODE_SPACE, MAP_SPACE, LO_SPACE}

kWordAligned == 0
kDoubleAligned == 1
kDoubleUnaligned == 2
AllocationAlignment == {kWordAligned, kDoubleAligned, kDoubleUnaligned}

ScopeInfoFlagsScope == 0 .. 6
ScopeInfoFlagsReceiver == 0 .. 3
ScopeInfoFlagsFuncVar == 0 .. 3
ScopeInfoFlagsLang == 0 .. 1
ScopeInfoFlagsFuncKind ==
    {0, 1, 2, 4, 6, 8, 16, 32, 64, 128, 256, 512, 192, 40, 24, 56, 257, 260, 262, 258}

None == <<>>

from_int(members, value) == IF value \in members THEN <<value>> ELSE None

\* ScopeInfoFlags.__init__
ScopeInfoFlags(flags) ==
    [scope |-> from_int(ScopeInfoFlagsScope, BitAnd(flags, \hF)),
     calls_sloppy_eval |-> ShiftRight(BitAnd(flags, \h10), 4) # 0,
     lang_mode |-> from_int(ScopeInfoFlagsLang, ShiftRight(BitAnd(flags, \h20), 5)),
     declaration_scope |-> ShiftRight(BitAnd(flags, \h40), 6) # 0,
     recv |-> from_int(ScopeInfoFlagsReceiver, ShiftRight(BitAnd(flags, \h180), 7)),
     has_new_target |-> ShiftRight(BitAnd(flags, \h200), 9) # 0,
     func_var |-> from_int(ScopeInfoFlagsFuncVar, ShiftRight(BitAnd(flags, \hC00), 10)),
     asm_module |-> ShiftRight(BitAnd(flags, \h1000), 12) # 0,
     has_simple_parameters |-> ShiftRight(BitAnd(flags, \h2000), 13) # 0,
     kind |-> from_int(ScopeInfoFlagsFuncKind, ShiftRight(BitAnd(flags, \h00FFC000), 14)),
     has_outer_scope_info |-> ShiftRight(BitAnd(flags, \h01000000), 24) # 0,
     is_debug_evaluate_scope |-> ShiftRight(BitAnd(flags, \h02000000), 25) # 0]

(***************************************************************************)
(* JscParser: pointer geometry, back-reference decoding, alignment fill.   *)
(***************************************************************************)
kPointerSizeOf(b32) == IF b32 THEN 4 ELSE 8

kPointerSizeLog2Of(b32) == IF b32 THEN 2 ELSE 3

\* the decoding part of JscParser._get_back_referenced_object
DecodeBackRef(b32, space, back_ref) ==
    IF space = <<LO_SPACE>> \/ space = <<MAP_SPACE>>
    THEN [chunk_index |-> 0, chunk_offset |-> 0]
    ELSE IF b32
         THEN [chunk_index |-> ShiftRight(BitAnd(back_ref, \h1FFE0000), 17),
               chunk_offset |-> ShiftLeft(BitAnd(back_ref, \h1FFFF), kPointerSizeLog2Of(b32))]
         ELSE [chunk_index |-> ShiftRight(BitAnd(back_ref, \h1FFF0000), 16),
               chunk_offset |-> ShiftLeft(BitAnd(back_ref, \hFFFF), kPointerSizeLog2Of(b32))]

\* _get_fill_to_align with the test of kDoubleUnaligned inverted
_get_fill_to_align_Inverted(alignment, kPointerSize, address) ==
    IF alignment = kDoubleAligned /\ BitAnd(address, 7) # 0 THEN kPointerSize
    ELSE IF alignment = kDoubleUnaligned /\ BitAnd(address, 7) = 0 THEN 8 - kPointerSize
    ELSE 0

\* JscParser._get_fill_to_align
_get_fill_to_align(alignment, kPointerSize, address) ==
    IF alignment = kDoubleAligned /\ BitAnd(address, 7) # 0 THEN kPointerSize
    ELSE IF alignment = kDoubleUnaligned /\ BitAnd(address, 7) # 0 THEN 8 - kPointerSize
    ELSE 0

(***************************************************************************)
(* Disassembler: register names (v6/disasm.py).                            *)
(***************************************************************************)
\* _byte_to_register with the stack registers numbered upwards
_byte_to_register_Ascending(val) ==
    IF val = 0 THEN <<"W", "i", "d", "e">>
    ELSE IF val = 1 THEN <<"E", "x", "t", "r", "a", "W", "i", "d", "e">>
    ELSE IF 2 <= val /\ val <= 127 THEN <<"a">> \o Dec(val - 2)
    ELSE IF 128 <= val /\ val <= 251 THEN <<"r">> \o Dec(val - 128)
    ELSE IF val = 252 THEN <<"_", "c", "l", "o", "s", "u", "r", "e">>
    ELSE IF val = 253 THEN <<"_", "c", "o", "n", "t", "e", "x", "t">>
    ELSE <<"?", "?", "(">> \o Dec(val) \o <<")">>

\* _byte_to_register (v6/disasm.py)
_byte_to_register(val) ==
    IF val = 0 THEN <<"W", "i", "d", "e">>
    ELSE IF val = 1 THEN <<"E", "x", "t", "r", "a", "W", "i", "d", "e">>
    ELSE IF 2 <= val /\ val <= 127 THEN <<"a">> \o Dec(val - 2)
    ELSE IF 128 <= val /\ val <= 251 THEN <<"r">> \o Dec(251 - val)
    ELSE IF val = 252 THEN <<"_", "c", "l", "o", "s", "u", "r", "e">>
    ELSE IF val = 253 THEN <<"_", "c", "o", "n", "t", "e", "x", "t">>
    ELSE <<"?", "?", "(">> \o Dec(val) \o <<")">>


\* the command-line run at rest, but for the pointer size and the heap
MainRest ==
    /\ args = <<>> /\ data = <<>> /\ feed = <<>> /\ detector = <<>> /\ readable = {}
    /\ pc = "idle" /\ exit_status = None /\ stderr = <<>> /\ stdout = <<>>
    /\ version = <<>> /\ roots = <<>> /\ builtins = <<>>
    /\ pos = 0 /\ next_alignment = <<kWordAligned>> /\ last_hot_index = 0
    /\ last_chunk_index = <<>> /\ hots = <<>> /\ reserv = <<>>
    /\ stack = <<>> /\ event = <<>>

\* the command-line run at rest
MainIdle == MainRest /\ is_32bit = FALSE /\ heap = <<>>

\* the pure-function harness at rest
PureIdle ==
    /\ call = [fn |-> "none"]
    /\ ret = None
    /\ done = TRUE


(***************************************************************************)
(* Pseudo-JS reconstructor (reconstructor.py): the accumulator/register    *)
(* simulator of reconstruct_js, one action per instruction handler.  An    *)
(* instruction's register operand is its operand byte v, printed by the    *)
(* disassembler as _byte_to_register(v).                                   *)
(***************************************************************************)
_P_OR == 6
_P_XOR == 7
_P_AND == 8
_P_SHIFT == 11
_P_ADD == 12
_P_MUL == 13
_P_ATOM == 100

_RIGHT_ASSOC_SAFE == {<<"+">>, <<"*">>, <<"|">>, <<"&">>, <<"^">>}

Paren(t) == <<"(">> \o t \o <<")">>

\* "%s OP %s" with the operands exchanged
BinText_RightFirst(left, op_str, right) == right \o <<" ">> \o op_str \o <<" ">> \o left

\* "%s OP %s" % (left, right)
BinText(left, op_str, right) == left \o <<" ">> \o op_str \o <<" ">> \o right

\* _wrap_left that never wraps
_wrap_left_Never(a, a_prec, op_prec) == a

_wrap_left(a, a_prec, op_prec) == IF a_prec < op_prec THEN Paren(a) ELSE a

_wrap_right(a, a_prec, op_prec, op_str) ==
    IF a_prec < op_prec THEN Paren(a)
    ELSE IF a_prec = op_prec /\ op_str \notin _RIGHT_ASSOC_SAFE THEN Paren(a)
    ELSE a

\* str.replace(old, new) for one-character old and new
Replace(t, old, new) == [i \in 1 .. Len(t) |-> IF t[i] = old THEN new ELSE t[i]]

\* re.match(r'^[ar]\d+$', name)
is_raw(name) == Len(name) > 1 /\ name[1] \in {"a", "r"} /\ isdigit(Rest(name))

_reg_to_name(reg_str, ps, locals, first_slot) ==
    IF reg_str = <<"<", "t", "h", "i", "s", ">">> THEN <<"t", "h", "i", "s">>
    ELSE IF reg_str \in {<<"<", "c", "l", "o", "s", "u", "r", "e", ">">>,
                         <<"<", "c", "o", "n", "t", "e", "x", "t", ">">>} THEN reg_str
    ELSE IF Len(reg_str) > 0 /\ reg_str[1] = "a" /\ isdigit(Rest(reg_str))
    THEN LET rev_idx == Len(ps) - 1 - ParseInt(Rest(reg_str))
         IN  IF 0 <= rev_idx /\ rev_idx < Len(ps) THEN ps[rev_idx + 1] ELSE reg_str
    ELSE IF Len(reg_str) > 0 /\ reg_str[1] = "r" /\ isdigit(Rest(reg_str))
    THEN LET slot == ParseInt(Rest(reg_str)) - first_slot
         IN  IF /\ 0 <= slot /\ slot < Len(locals)
                /\ Len(locals[slot + 1]) > 0
                /\ locals[slot + 1] # <<"e", "m", "p", "t", "y", "_", "s", "t", "r", "i", "n", "g">>
             THEN Replace(Replace(locals[slot + 1], ".", "_"), " ", "_")
             ELSE reg_str
    ELSE reg_str

rname(r) == _reg_to_name(r, params, stack_locals, stack_first_slot)

\* regs.get(name, name)
get_reg(r) == IF rname(r) \in DOMAIN regs THEN regs[rname(r)] ELSE rname(r)

\* regs after regs[name] = val
Assign(map, name, val) ==
    [n \in DOMAIN map \cup {name} |-> IF n = name THEN val ELSE map[n]]

indent == <<" ", " ", " ", " ">>

(* The values of the bytecode: an expression tree <<"atom", text>> or       *)
(* <<op, left, right>>, with marks on how its text came about: named, some  *)
(* operand is shown by the name of the register Star stored it to;          *)
(* reloaded, it is a compound value that Ldar read back from a register;    *)
(* rhs_reloaded, its right operand was such a reloaded value.               *)
Atom(text) ==
    [t |-> <<"atom", text>>, named |-> FALSE, reloaded |-> FALSE, rhs_reloaded |-> FALSE]

BinValue(op, l, r) ==
    [t |-> <<op, l.t, r.t>>, named |-> l.named \/ r.named,
     reloaded |-> FALSE, rhs_reloaded |-> r.reloaded]

IsAtom(t) == t[1] = "atom"

RegOperands == {2, 3, 251}

SmiOperands == {3}

ScopeSamples ==
    {[params |-> <<>>, stack_locals |-> <<>>],
     [params |-> <<>>, stack_locals |-> <<<<"t">>>>]}

ReconIdle ==
    /\ params = <<>> /\ stack_locals = <<>> /\ stack_first_slot = 0
    /\ acc = <<>> /\ acc_prec = 0 /\ regs = <<>> /\ lines = <<>>
    /\ ninstr = MaxInstr /\ instructions = None /\ cp = None
    /\ val_acc = <<>> /\ val_regs = <<>> /\ exc = None

\* reconstruct_js before its loop, for the names of the scope
ReconStart ==
    /\ stack_first_slot = 0
    /\ acc = <<"u", "n", "d", "e", "f", "i", "n", "e", "d">>
    /\ acc_prec = _P_ATOM
    /\ regs = [n \in {} |-> <<>>]
    /\ lines = <<>>
    /\ ninstr = 0
    /\ val_acc = Atom(<<"u", "n", "d", "e", "f", "i", "n", "e", "d">>)
    /\ val_regs = [v \in RegOperands |-> Atom(rname(_byte_to_register(v)))]
    /\ exc = None

ReconInit ==
    /\ \E sc \in ScopeSamples :
          /\ params = sc.params
          /\ stack_locals = sc.stack_locals
    /\ instructions = None
    /\ cp = None
    /\ ReconStart
    /\ PureIdle
    /\ MainIdle

\* the operands of the instruction the loop is at, if it is a base
\* instruction: those of instructions[ninstr], or any of the sample operands
\* while each step draws the next instruction
Drawn(base, sample) ==
    IF instructions = None THEN sample
    ELSE IF ninstr < Len(instructions[1]) /\ instructions[1][ninstr + 1].base = base
    THEN {instructions[1][ninstr + 1].ops}
    ELSE {}

Step ==
    /\ instructions = None => ninstr < MaxInstr
    /\ exc = None
    /\ ninstr' = ninstr + 1
    /\ UNCHANGED <<params, stack_locals, stack_first_slot, instructions, cp, exc,
                   pureVars, mainVars>>

LdaSmi ==
    \E imm \in Drawn("LdaSmi", SmiOperands) :
        /\ Step
        /\ acc' = Dec(imm)
        /\ acc_prec' = _P_ATOM
        /\ val_acc' = Atom(Dec(imm))
        /\ UNCHANGED <<regs, lines, val_regs>>

Ldar ==
    \E v \in Drawn("Ldar", RegOperands) :
        /\ Step
        /\ acc' = get_reg(_byte_to_register(v))
        /\ acc_prec' = _P_ATOM
        /\ val_acc' = [val_regs[v] EXCEPT !.reloaded = @ \/ ~IsAtom(val_regs[v].t)]
        /\ UNCHANGED <<regs, lines, val_regs>>

Star ==
    \E v \in Drawn("Star", RegOperands) :
        LET reg == _byte_to_register(v)
            name == rname(reg)
            stored == IF is_raw(name) /\ acc_prec < _P_ATOM THEN Paren(acc) ELSE acc
        IN  /\ Step
            /\ regs' = IF is_raw(name) THEN Assign(regs, name, stored)
                       ELSE Assign(regs, name, name)
            /\ lines' = IF is_raw(name) THEN lines
                        ELSE Append(lines, indent \o name \o <<" ", "=", " ">> \o acc \o <<";">>)
            /\ acc' = name
            /\ acc_prec' = _P_ATOM
            /\ val_regs' = [val_regs EXCEPT
                              ![v] = IF is_raw(name) THEN val_acc
                                     ELSE [val_acc EXCEPT !.named = TRUE]]
            /\ val_acc' = [val_acc EXCEPT !.named = TRUE]

Mov ==
    \E pair \in Drawn("Mov", RegOperands \X RegOperands) :
        LET src_r == _byte_to_register(pair[1])
            dst_r == _byte_to_register(pair[2])
            val == get_reg(src_r)
            name == rname(dst_r)
        IN  /\ Step
            /\ regs' = IF is_raw(name) THEN Assign(regs, name, val)
                       ELSE Assign(regs, name, name)
            /\ lines' = IF is_raw(name) THEN lines
                        ELSE Append(lines, indent \o name \o <<" ", "=", " ">> \o val \o <<";">>)
            /\ val_regs' = [val_regs EXCEPT
                              ![pair[2]] = IF is_raw(name) THEN val_regs[pair[1]]
                                           ELSE [val_regs[pair[1]] EXCEPT !.named = TRUE]]
            /\ UNCHANGED <<acc, acc_prec, val_acc>>

\* the handler of a binary operator with a register operand
RegisterOperator(base, op_str, op_prec) ==
    \E v \in Drawn(base, RegOperands) :
        /\ Step
        /\ acc' = BinText(get_reg(_byte_to_register(v)), op_str,
                          _wrap_right(acc, acc_prec, op_prec, op_str))
        /\ acc_prec' = op_prec
        /\ val_acc' = BinValue(IF Len(op_str) = 1 THEN op_str[1] ELSE base, val_regs[v], val_acc)
        /\ UNCHANGED <<regs, lines, val_regs>>

Add == RegisterOperator("Add", <<"+">>, _P_ADD)

Sub == RegisterOperator("Sub", <<"-">>, _P_ADD)

Mul == RegisterOperator("Mul", <<"*">>, _P_MUL)

Div == RegisterOperator("Div", <<"/">>, _P_MUL)

Mod == RegisterOperator("Mod", <<"%">>, _P_MUL)

BitwiseOr == RegisterOperator("BitwiseOr", <<"|">>, _P_OR)

BitwiseXor == RegisterOperator("BitwiseXor", <<"^">>, _P_XOR)

BitwiseAnd == RegisterOperator("BitwiseAnd", <<"&">>, _P_AND)

ShiftLeftOperator == RegisterOperator("ShiftLeft", <<"<", "<">>, _P_SHIFT)

ShiftRightOperator == RegisterOperator("ShiftRight", <<">", ">">>, _P_SHIFT)

ShiftRightLogical == RegisterOperator("ShiftRightLogical", <<">", ">", ">">>, _P_SHIFT)

AddSmi ==
    \E imm \in Drawn("AddSmi", SmiOperands) :
        /\ Step
        /\ acc' = BinText(_wrap_left(acc, acc_prec, _P_ADD), <<"+">>, Dec(imm))
        /\ acc_prec' = _P_ADD
        /\ val_acc' = BinValue("+", val_acc, Atom(Dec(imm)))
        /\ UNCHANGED <<regs, lines, val_regs>>

MulSmi ==
    \E imm \in Drawn("MulSmi", SmiOperands) :
        /\ Step
        /\ acc' = BinText(_wrap_left(acc, acc_prec, _P_MUL), <<"*">>, Dec(imm))
        /\ acc_prec' = _P_MUL
        /\ val_acc' = BinValue("*", val_acc, Atom(Dec(imm)))
        /\ UNCHANGED <<regs, lines, val_regs>>

ReturnStatement ==
    \E none \in Drawn("Return", {<<>>}) :
        /\ Step
        /\ lines' = Append(lines, indent \o <<"r", "e", "t", "u", "r", "n", " ">> \o acc \o <<";">>)
        /\ UNCHANGED <<acc, acc_prec, regs, val_acc, val_regs>>

ReconNext == LdaSmi \/ Ldar \/ Star \/ Add \/ Mul \/ AddSmi \/ MulSmi

SpecRecon == ReconInit /\ [][ReconNext]_vars

(***************************************************************************)
(* Sample inputs of the pure functions.                                    *)
(***************************************************************************)
\* the minimum width k of the varint holding n, and its k little-endian bytes
\* of (n << 2) | (k - 1)
VarintWidth(n) == IF n < 2 ^ 6 THEN 1 ELSE IF n < 2 ^ 14 THEN 2 ELSE IF n < 2 ^ 22 THEN 3 ELSE 4

VarintBytes(n) ==
    LET k == VarintWidth(n)
        all == <<(n % 64) * 4 + (k - 1), (n \div 64) % 256,
                 (n \div 16384) % 256, (n \div 4194304) % 256>>
    IN  SubSeq(all, 1, k)

VarintSamples ==
    (0 .. MaxDenseVarint)
        \cup {2 ^ 14 - 1, 2 ^ 14, 2 ^ 14 + 255, 2 ^ 22 - 1, 2 ^ 22, 2 ^ 22 + 65535,
              2 ^ 29, 2 ^ 30 - 1, 12345, 1234567, 123456789}

PadBytes == {0, 3, 255}

Pad(len, b) == [i \in 1 .. len |-> b]

ReadIntCalls ==
    {[fn |-> "_read_int", n |-> n, pos |-> pre,
      data |-> Pad(pre, b) \o VarintBytes(n) \o Pad(3, b)] :
        n \in VarintSamples, b \in PadBytes, pre \in 0 .. MaxPrefix}

\* back-references: the word (c << shift) | (o >> log2) of chunk c, offset o
ChunkIndexSamples(b32) ==
    IF b32 THEN {0, 1, 2, 5, 2 ^ 11, 2 ^ 12 - 1} ELSE {0, 1, 2, 5, 2 ^ 12, 2 ^ 13 - 1}

SlotSamples(b32) ==
    IF b32 THEN {0, 1, 2, 3, 2 ^ 16, 2 ^ 17 - 1} ELSE {0, 1, 2, 3, 2 ^ 15, 2 ^ 16 - 1}

BackRefWord(b32, c, o) ==
    IF b32 THEN c * (2 ^ 17) + (o \div 4) ELSE c * (2 ^ 16) + (o \div 8)

BackRefCalls ==
    {[fn |-> "back_ref", is_32bit |-> b, space |-> from_int(AllocSpace, s), c |-> c,
      o |-> slot * kPointerSizeOf(b),
      back_ref |-> BackRefWord(b, c, slot * kPointerSizeOf(b))] :
        b \in BOOLEAN, s \in AllocSpace,
        c \in ChunkIndexSamples(TRUE) \cup ChunkIndexSamples(FALSE),
        slot \in SlotSamples(TRUE) \cup SlotSamples(FALSE)}

RegisterCalls == {[fn |-> "_byte_to_register", val |-> v] : v \in 0 .. 255}

FillCalls ==
    {[fn |-> "_get_fill_to_align", next_alignment |-> al, kPointerSize |-> ps,
      address |-> a] :
        al \in AllocationAlignment, ps \in {4, 8}, a \in 0 .. MaxAddress}

\* flags_raw assembled from the twelve bit-fields
OneBitPatterns ==
    {<<0, 0, 0, 0, 0, 0, 0, 0>>, <<1, 1, 1, 1, 1, 1, 1, 1>>,
     <<1, 0, 0, 0, 0, 0, 0, 0>>, <<0, 1, 0, 0, 0, 0, 0, 0>>,
     <<0, 0, 1, 0, 0, 0, 0, 0>>, <<0, 0, 0, 1, 0, 0, 0, 0>>,
     <<0, 0, 0, 0, 1, 0, 0, 0>>, <<0, 0, 0, 0, 0, 1, 0, 0>>,
     <<0, 0, 0, 0, 0, 0, 1, 0>>, <<0, 0, 0, 0, 0, 0, 0, 1>>}

KindSamples == {0, 1, 2, 3, 4, 262, 512, 1023}

FlagsRaw(scope, bits, recv, func_var, kind) ==
    scope + bits[1] * (2 ^ 4) + bits[2] * (2 ^ 5) + bits[3] * (2 ^ 6) + recv * (2 ^ 7)
        + bits[4] * (2 ^ 9) + func_var * (2 ^ 10) + bits[5] * (2 ^ 12)
        + bits[6] * (2 ^ 13) + kind * (2 ^ 14) + bits[7] * (2 ^ 24) + bits[8] * (2 ^ 25)

FlagsCalls ==
    {[fn |-> "ScopeInfoFlags", flags |-> FlagsRaw(sc, bits, rv, rv, kd)] :
        sc \in 0 .. 15, bits \in OneBitPatterns, rv \in 0 .. 3, kd \in KindSamples}
        \cup {[fn |-> "ScopeInfoFlags", flags |-> FlagsRaw(1, <<0, 1, 1, 0, 0, 0, 1, 0>>, rv, fv, 0)] :
                rv \in 0 .. 3, fv \in 0 .. 3}


\* bytecode buffers: every byte, bare and after each prefix, at the end of the
\* buffer and before further instructions (LdaSmi [2], Return; an unknown
\* byte and Return; a 4-byte operand and Return; operand bytes for the five
\* operands of the longest instruction at every width, the first operand
\* with its sign bit set at every width)
OperandBytes ==
    <<\hFF, \hFF, \hFF, \hFF, \h80, \h00, \h00, \h00, \h05, \h00, \h00, \h00,
      \h06, \h00, \h00, \h00, \h07, \h00, \h00, \h00, \h95>>

BytecodeTails ==
    {<<>>, <<\h03, \h02, \h95>>, <<\hFF, \h95>>, <<\h02, \h00, \h00, \h00, \h95>>,
     OperandBytes}

BytecodeSamples ==
    {<<>>} \cup {<<b>> \o tail : b \in 0 .. 255, tail \in BytecodeTails}
        \cup {<<prefix, b>> \o tail : prefix \in {\h00, \h01}, b \in 0 .. 255,
                                       tail \in BytecodeTails}

\* a constant pool: a string, an integer and a closure reference
PoolSample ==
    <<[type |-> "str", value |-> <<"l", "e", "n", "g", "t", "h">>], [type |-> "int", value |-> 7],
      [type |-> "ConstantPoolRef", name |-> <<"<", "c", "l", "o", "s", "u", "r", "e", ":", " ", "f", ">">>]>>

DisasmCalls ==
    {[fn |-> "disassemble_bytecode", bytecode |-> b, constant_pool |-> pool] :
        b \in BytecodeSamples, pool \in {None, <<PoolSample>>}}

(***************************************************************************)
(* The command-line run (jsc_decompiler.py) and the snapshot deserializer  *)
(* (v6/parser.py).  The file is its header region, data, followed by the   *)
(* bytes of feed.  Texts that the program formats are sequences of         *)
(* characters; a printed message is its format strings, outermost first,   *)
(* and the texts substituted into them.                                    *)
(***************************************************************************)
HexDigits ==
    <<"0", "1", "2", "3", "4", "5", "6", "7", "8", "9", "A", "B", "C", "D", "E", "F">>

\* "%X" % n
RECURSIVE Hex(_)
Hex(n) == IF n < 16 THEN <<HexDigits[n + 1]>> ELSE Hex(n \div 16) \o <<HexDigits[(n % 16) + 1]>>

ZFill(s, w) == IF Len(s) >= w THEN s ELSE [i \in 1 .. (w - Len(s)) |-> "0"] \o s

\* "%02X" % n
Hex02(n) == ZFill(Hex(n), 2)

\* "%08X" % x for the word x = <<hi, lo>>
Hex08(x) == ZFill(Hex(x[1]), 4) \o ZFill(Hex(x[2]), 4)

Message(fmt, a) == [fmt |-> fmt, args |-> a]

_MAGIC_V8_LEGACY == {<<\hC0DE, \h0BEE>>, <<\hC0DE, \h03BE>>}

\* no magic is modern: 0xC0DE0628 is not routed away
_MAGIC_V8_MODERN_Empty == {}

_MAGIC_V8_MODERN == {<<\hC0DE, \h0628>>}

_ALL_MAGIC == _MAGIC_V8_LEGACY \cup _MAGIC_V8_MODERN

\* the magic values JscParser.parse accepts
ParseMagic == {<<\hC0DE, \h0BEE>>, <<\hC0DE, \h03BE>>, <<\hC0DE, \h0628>>}

\* a value held in a slot of a ReservObject: None, a ReservObject (v is its id),
\* a RootObject (v is its index in roots), an attached or builtin string (v is
\* its index), or an int (w is its 16-bit limbs, most significant first)
Value(k, v) == [k |-> k, v |-> v, w |-> <<>>]

NoneValue == Value("None", 0)

IntValue(w) == [k |-> "int", v |-> 0, w |-> w]

\* ReservObject.__init__
ReservObject(size) == [size |-> size, offset |-> 0, _last_add_address |-> 0, objects |-> <<>>]

\* a call of _read_data that starts at insertion offset 0 whatever it is given
Frame_FromStart(obj, size, space, insert_off, caller) ==
    [obj |-> obj, size |-> size, space |-> space, insert_off |-> 0, caller |-> caller]

\* one active call of _read_data: its arguments, its insert_off, and who called
Frame(obj, size, space, insert_off, caller) ==
    [obj |-> obj, size |-> size, space |-> space, insert_off |-> insert_off, caller |-> caller]

kPointerSize == kPointerSizeOf(is_32bit)

kPointerSizeLog2 == kPointerSizeLog2Of(is_32bit)

\* JscParser._pointer_size_align
_pointer_size_align(value) == ((value + (kPointerSize - 1)) \div kPointerSize) * kPointerSize

(***************************************************************************)
(* Inputs.                                                                 *)
(***************************************************************************)
\* the four bytes of a word, little-endian
LE32(x) == <<x[2] % 256, x[2] \div 256, x[1] % 256, x[1] \div 256>>

U32(n) == <<n \div 65536, n % 65536>>

RECURSIVE Concat(_)
Concat(ss) == IF ss = <<>> THEN <<>> ELSE Head(ss) \o Concat(Tail(ss))

\* a chunk-table entry: a chunk of n bytes, the last one of its space or not
Chunk(n) == U32(n)

LastChunk(n) == <<\h8000 + (n \div 65536), n % 65536>>

\* the header: magic (as its four bytes), version hash, source hash, cpu
\* features, flags hash, reservation count, code-stubs count, payload size,
\* two more words, the chunk table, the stub ids
Header(magic, version_hash, reserv_count, table, stubs) ==
    magic \o LE32(version_hash) \o LE32(U32(0)) \o LE32(U32(0)) \o LE32(U32(0))
          \o LE32(U32(reserv_count)) \o LE32(U32(Len(stubs))) \o LE32(U32(0))
          \o LE32(U32(0)) \o LE32(U32(0))
          \o Concat([i \in 1 .. Len(table) |-> LE32(table[i])])
          \o Concat([i \in 1 .. Len(stubs) |-> LE32(stubs[i])])

MagicSamples ==
    {<<b0, b1, \hDE, b3>> : b0 \in {\hEE, \hBE, \h28, 0}, b1 \in {\h0B, \h03, \h06},
                            b3 \in {\hC0, 0}}
        \cup {<<\hC0, \hDE, \h0B, \hEE>>, <<\hC0, \hDE, \h06, \h28>>}

LegacyMagic == <<\hEE, \h0B, \hDE, \hC0>>

Hash32 == <<\h1A2B, \h3C4D>>

Hash64 == <<\h9E37, \h79B9>>

HashUnknown == <<\hFFFF, \h0007>>

VersionText == <<"6", ".", "2", ".", "4", "1", "4", ".", "5", "4">>

DetectorSample ==
    [ver_hashes_32 |-> (Hash32 :> VersionText), ver_hashes_64 |-> (Hash64 :> VersionText)]

ArgSamples ==
    {[quiet |-> FALSE, json |-> FALSE], [quiet |-> TRUE, json |-> FALSE],
     [quiet |-> FALSE, json |-> TRUE]}

LoudArgs == [quiet |-> FALSE, json |-> FALSE]

\* one chunk in each of the five spaces
OneChunkEach == [i \in 1 .. 5 |-> LastChunk(64)]

TableSamples ==
    {OneChunkEach,
     <<Chunk(16), LastChunk(16), LastChunk(32)>>,
     <<LastChunk(16)>>,
     [i \in 1 .. 6 |-> LastChunk(8)]}

RootTable(n) == [i \in 1 .. n |-> Value("root", i - 1)]

BuiltinTable(n) == [i \in 1 .. n |-> Value("builtin", i - 1)]

\* the bytes after the header: byte values drawn from the alphabet alpha, at
\* most left of them dispatched, or the given bytes and then the end of file
FreeFeed(alpha, left) == [alpha |-> alpha, left |-> left, bytes |-> <<>>]

FileFeed(bytes) == [alpha |-> "file", left |-> 0, bytes |-> bytes]

MaxDispatch == 3     \* bytes dispatched from a drawn payload

\* payload bytes a drawn payload is made of
PayloadAlphabet ==
    {\h00, \h01, \h08, \h09, \h0B, \h05, \h38, \h2F, \h18, \h16}

\* payload bytes of a drawn payload that fills the slots of an object: a new
\* object, raw data, repeats, a root constant
SlotAlphabet ==
    {\h00, \h1A, \h19, \hC0, \hC1, \hE0, \hE1, \h81}

\* files whose payload is one byte b followed by a few fixed bytes
OneByteFiles ==
    {FileFeed(<<b>> \o tail) : b \in 0 .. 255,
                               tail \in {<<>>, <<\h04, \h2F, \h18, 0, 0, 0>>}}

HeaderSample(magic, version_hash, table) == Header(magic, version_hash, Len(table), table, <<>>)

\* the files of the data directory, in the order the pipeline opens them
MetadataFiles ==
    <<"v8_versions.json", "v8_roots.json", "v8_builtins.json", "v8_funcs.json",
      "v8_jsruns.json">>

AllReadable == {MetadataFiles[i] : i \in DOMAIN MetadataFiles}

Scenario(a, d, f, nroots) ==
    [args |-> a, data |-> d, feed |-> f, nroots |-> nroots, readable |-> AllReadable]

\* every magic, every kind of version hash, every flag setting
EntryScenarios ==
    {Scenario(a, HeaderSample(m, h, OneChunkEach), f, 32) :
        a \in ArgSamples, m \in MagicSamples, h \in {Hash32, Hash64, HashUnknown},
        f \in {FileFeed(<<>>), FileFeed(<<\h2F, \h18>>)}}

\* files cut inside the header, and a reservation count larger than the table
CutScenarios ==
    {Scenario(LoudArgs, SubSeq(HeaderSample(LegacyMagic, Hash64, OneChunkEach), 1, k),
              FileFeed(<<>>), 32) : k \in {0, 3, 7, 8, 12, 39, 40, 43, 59}}
        \cup {Scenario(LoudArgs, Header(LegacyMagic, Hash64, 3, <<LastChunk(16)>>, <<>>),
                       FileFeed(<<>>), 32)}

OneByteScenarios ==
    {Scenario(a, HeaderSample(LegacyMagic, h, OneChunkEach), f, 32) :
        a \in {LoudArgs, [quiet |-> TRUE, json |-> FALSE]},
        h \in {Hash32, Hash64, HashUnknown}, f \in OneByteFiles}

DrawnScenarios ==
    {Scenario(LoudArgs, HeaderSample(LegacyMagic, h, t), FreeFeed("drawn", MaxDispatch), n) :
        h \in {Hash32, Hash64}, t \in TableSamples, n \in {32}}

\* a 32-bit payload with one function: in the old space the object F, at
\* F + 8 words the script S, at S + 12 words the array A of shared functions
\* with length smi 1 and, as its item, the weak cell W that holds the function
FunctionFile ==
    <<\h01, \h24, \h0F, \h80,
      \h01, \h34, \h0F, \hC0,
      \h01, \h0C, \h0F, \h10, \hC0, \h02, \h00, \h00, \h00,
      \h01, \h08, \h0F, \h10,
      \h01, \h04, \h0F, \h10,
      \h18, \h00, \h00>>

\* the same payload with the byte 0x06 in place of the function's content
BrokenFunctionFile == SubSeq(FunctionFile, 1, 23) \o <<\h06, \h00, \h18, \h00, \h00>>

FunctionScenarios ==
    {Scenario(a, HeaderSample(LegacyMagic, Hash32, OneChunkEach), FileFeed(bytes), 32) :
        a \in ArgSamples, bytes \in {FunctionFile, BrokenFunctionFile}}

\* a well-formed file, and a data directory with one file that cannot be read
MetadataScenarios ==
    {[Scenario(a, HeaderSample(LegacyMagic, h, OneChunkEach), FileFeed(<<\h2F, \h18>>), 32)
        EXCEPT !.readable = AllReadable \ {file}] :
        a \in ArgSamples, h \in {Hash32, Hash64}, file \in AllReadable}

\* a payload with more promotions than the hot-object ring has slots: an
\* object of ten words filled by roots 1 and 3..9, by a back-reference to the
\* object itself, and in its last word by hot object 0
RingFile ==
    <<\h00, \h28,
      \h05, \h04, \h08, \h00, \h05, \h0C, \h05, \h10, \h05, \h14,
      \h05, \h18, \h05, \h1C, \h05, \h20, \h05, \h24,
      \h38,
      \h18, \h00, \h00, \h00>>

RingScenarios ==
    {Scenario(LoudArgs, HeaderSample(LegacyMagic, h, OneChunkEach), FileFeed(RingFile), 32) :
        h \in {Hash32, Hash64}}

\* a payload with a deferred object: the object A of two words with a root
\* as its first word, left by kNop; the deferred entry for A, whose content
\* is a kSynchronize that _read_data skips, a new object of one word that
\* holds a root; the kSynchronize that ends the deferred loop
DeferredFile ==
    <<\h00, \h08, \h81, \h2F,
      \h00, \h00, \h08, \h18, \h00, \h04, \h85,
      \h18, \h00, \h00, \h00>>

DeferredScenarios ==
    {Scenario(LoudArgs, HeaderSample(LegacyMagic, h, OneChunkEach), FileFeed(DeferredFile), 32) :
        h \in {Hash32, Hash64}}

SlotScenarios ==
    {Scenario(LoudArgs, HeaderSample(LegacyMagic, h, OneChunkEach), FreeFeed("slots", MaxDispatch), 32) :
        h \in {Hash32, Hash64}}

Scenarios ==
    EntryScenarios \cup CutScenarios \cup OneByteScenarios \cup DrawnScenarios
        \cup FunctionScenarios \cup MetadataScenarios \cup RingScenarios
        \cup SlotScenarios \cup DeferredScenarios

Init ==
    /\ \E sc \in Scenarios :
          /\ args = sc.args
          /\ data = sc.data
          /\ feed = sc.feed
          /\ roots = RootTable(sc.nroots)
          /\ readable = sc.readable
    /\ builtins = BuiltinTable(2)
    /\ detector = DetectorSample
    /\ pc = "main"
    /\ exit_status = None
    /\ stderr = <<>>
    /\ stdout = <<>>
    /\ version = <<>>
    /\ is_32bit = FALSE
    /\ pos = 0
    /\ next_alignment = <<kWordAligned>>
    /\ last_hot_index = 0
    /\ last_chunk_index = <<>>
    /\ hots = <<>>
    /\ reserv = <<>>
    /\ heap = <<>>
    /\ stack = <<>>
    /\ event = [kind |-> "start"]
    /\ PureIdle
    /\ ReconIdle

inputVars == <<args, data, detector, readable, roots, builtins>>

parserVars ==
    <<pos, next_alignment, last_hot_index, last_chunk_index, hots, reserv, heap, stack>>

\* print the messages to stderr and sys.exit(status)
Exit(status, messages) ==
    /\ pc' = "exit"
    /\ exit_status' = <<status>>
    /\ stderr' = stderr \o messages

\* main, from the size check to the routing on the magic
main ==
    /\ pc = "main"
    /\ event' = [kind |-> "main"]
    /\ IF Len(data) < 8
       THEN Exit(1, <<Message(<<"Error: File too small">>, <<>>)>>)
       ELSE LET magic == read_uint32(data, 0)
            IN  IF magic \notin _ALL_MAGIC
                THEN Exit(1, <<Message(<<"Error: Invalid JSC magic: 0x%08X">>,
                                       <<Hex08(magic)>>)>>)
                ELSE IF magic \in _MAGIC_V8_MODERN
                THEN Exit(1,
                          <<Message(<<"Error: This file was compiled with Node.js 22+ (V8 12.x).">>, <<>>),
                            Message(<<"Node 22 support is available separately.">>, <<>>),
                            Message(<<"Contact: Girishx3@gmail.com">>, <<>>)>>)
                ELSE /\ pc' = "_run_legacy_pipeline"
                     /\ UNCHANGED <<exit_status, stderr>>
    /\ UNCHANGED <<inputVars, feed, stdout, version, is_32bit, parserVars, pureVars, reconVars>>

\* V8VersionDetector.detect_version
detect_version(hash_val) ==
    IF hash_val \in DOMAIN detector.ver_hashes_32 THEN detector.ver_hashes_32[hash_val]
    ELSE IF hash_val \in DOMAIN detector.ver_hashes_64 THEN detector.ver_hashes_64[hash_val]
    ELSE <<"U", "n", "k", "n", "o", "w", "n">>

\* detect_bitness that takes an unknown hash for a 32-bit one and never raises
detect_bitness_Assumes32(hash_val) ==
    IF hash_val \in DOMAIN detector.ver_hashes_64 THEN <<FALSE>> ELSE <<TRUE>>

\* V8VersionDetector.detect_bitness: <<is_32bit>>, or None when it raises ValueError
detect_bitness(hash_val) ==
    IF hash_val \in DOMAIN detector.ver_hashes_32 THEN <<TRUE>>
    ELSE IF hash_val \in DOMAIN detector.ver_hashes_64 THEN <<FALSE>>
    ELSE None

BitnessText(b) ==
    IF b THEN <<"3", "2", "-", "b", "i", "t">> ELSE <<"6", "4", "-", "b", "i", "t">>

FileName == <<"a", ".", "j", "s", "c">>

\* the first of the files that open() fails on, or None
FirstUnreadable(files) ==
    LET bad == {i \in DOMAIN files : files[i] \notin readable}
    IN  IF bad = {} THEN None
        ELSE <<files[CHOOSE i \in bad : \A j \in bad : i <= j]>>

\* the traceback the interpreter prints for an exception nothing catches
Uncaught(exception, what) ==
    <<Message(<<"Traceback (most recent call last):">>, <<>>),
      Message(<<"%s: %s">>, <<exception, what>>)>>

\* _run_legacy_pipeline up to the call of parse: V8VersionDetector.__init__,
\* version and bitness, the progress messages, JscParser.__init__ and
\* load_metadata
_run_legacy_pipeline ==
    /\ pc = "_run_legacy_pipeline"
    /\ LET version_hash == read_uint32(data, 4)
           bitness == detect_bitness(version_hash)
           bit == IF bitness = None THEN FALSE ELSE bitness[1]
           warning ==
               IF bitness = None /\ ~args.quiet
               THEN <<Message(<<"Warning: Unknown version hash 0x%08X, assuming 64-bit">>,
                              <<Hex08(version_hash)>>)>>
               ELSE <<>>
           progress ==
               IF ~args.quiet /\ ~args.json
               THEN <<Message(<<"Parsing %s...">>, <<FileName>>),
                      Message(<<"V8 Version: %s (%s)">>,
                              <<detect_version(version_hash), BitnessText(bit)>>)>>
               ELSE <<>>
           versions == FirstUnreadable(SubSeq(MetadataFiles, 1, 1))
           metadata == FirstUnreadable(SubSeq(MetadataFiles, 2, 5))
       IN  IF versions # None
           THEN /\ Exit(1, Uncaught("OSError", versions[1]))
                /\ event' = [kind |-> "detect", raised |-> versions]
                /\ UNCHANGED <<version, is_32bit>>
           ELSE IF metadata # None
           THEN /\ Exit(1, warning \o progress \o Uncaught("OSError", metadata[1]))
                /\ version' = detect_version(version_hash)
                /\ is_32bit' = bit
                /\ event' = [kind |-> "detect", raised |-> metadata]
           ELSE /\ version' = detect_version(version_hash)
                /\ is_32bit' = bit
                /\ stderr' = stderr \o warning \o progress
                /\ event' = [kind |-> "detect", version_hash |-> version_hash,
                             bitness |-> bitness, raised |-> None]
                /\ pc' = "parse"
                /\ UNCHANGED exit_status
    /\ UNCHANGED <<inputVars, feed, stdout, parserVars, pureVars, reconVars>>

(***************************************************************************)
(* Exceptions raised inside JscParser.parse, caught by the pipeline.       *)
(***************************************************************************)
Exception(fmt, a) == [fmt |-> fmt, args |-> a]

\* struct.error of unpack_from("<I") at offset at of a buffer of size bytes
StructError(at, size) ==
    Exception(<<"unpack_from requires a buffer of at least %d bytes for unpacking 4 bytes at offset %d (actual buffer size is %d)">>,
              <<Dec(at + 4), Dec(at), Dec(size)>>)

\* IndexError of data[pos] past the end of the file
EndOfFile == Exception(<<"index out of range">>, <<>>)

\* IndexError of roots[idx]
ListIndexError == Exception(<<"list index out of range">>, <<>>)

\* _run_legacy_pipeline, the except branch around parse
ParseFailed(e) ==
    Exit(1, <<Message(<<"Error parsing JSC file: %s">> \o e.fmt, e.args)>>
                \o (IF ~args.quiet
                    THEN <<Message(<<"Traceback (most recent call last):">>, <<>>)>>
                    ELSE <<>>))

(***************************************************************************)
(* JscParser.parse: the header.                                            *)
(***************************************************************************)
RECURSIVE ReadChunkTable(_, _, _, _, _)
\* the loop over the chunk table, from entry i of reserv_count on: reserv and
\* the chunks it created
ReadChunkTable(i, reserv_count, curr_space, res, hp) ==
    IF i = reserv_count THEN [reserv |-> res, heap |-> hp]
    ELSE LET space == from_int(AllocSpace, curr_space)
             size == read_uint32(data, 40 + 4 * i)
             chunks == IF space \in DOMAIN res THEN res[space] ELSE <<>>
             last == Shr32(And32(size, <<\h8000, 0>>), 31) # <<0, 0>>
         IN  ReadChunkTable(i + 1, reserv_count,
                            IF last THEN curr_space + 1 ELSE curr_space,
                            Assign(res, space, Append(chunks, Len(hp) + 1)),
                            Append(hp, ReservObject(ToInt(And32(size, <<\h7FFF, \hFFFF>>)))))

\* parse up to the call of _read_data on the root object
parse ==
    /\ pc = "parse"
    /\ event' = [kind |-> "parse"]
    /\ LET magic == read_uint32(data, 0)
           reserv_count == ToInt(read_uint32(data, 20))
           code_stubs_count == ToInt(read_uint32(data, 24))
           header_end == 40 + reserv_count * 4 + code_stubs_count * 4
           table == ReadChunkTable(0, reserv_count, 0, <<>>, <<>>)
       IN  IF magic \notin ParseMagic
           THEN /\ ParseFailed(Exception(<<"Invalid JSC magic: 0x%08X">>, <<Hex08(magic)>>))
                /\ UNCHANGED parserVars
           ELSE IF Len(data) < 40 \/ Len(data) < header_end
           THEN /\ ParseFailed(StructError(4 * (Len(data) \div 4), Len(data)))
                /\ UNCHANGED parserVars
           ELSE /\ reserv' = table.reserv
                /\ last_chunk_index' = [s \in DOMAIN table.reserv |-> 0]
                /\ heap' = Append(table.heap, ReservObject(kPointerSize))
                /\ stack' = <<Frame(Len(table.heap) + 1, kPointerSize, <<NEW_SPACE>>, 0,
                                    "parse")>>
                /\ pos' = _pointer_size_align(header_end)
                /\ pc' = "_read_data"
                /\ UNCHANGED <<next_alignment, last_hot_index, hots, exit_status, stderr>>
    /\ UNCHANGED <<inputVars, feed, stdout, version, is_32bit, pureVars, reconVars>>

(***************************************************************************)
(* BinaryReader over the bytes after the header.                           *)
(***************************************************************************)
FromFile(f) == f.alpha = "file"

\* the values read_byte can return for a dispatched byte; none at the end
NextBytes(f) ==
    IF FromFile(f) THEN (IF f.bytes = <<>> THEN {} ELSE {f.bytes[1]})
    ELSE IF f.left = 0 THEN {}
    ELSE IF f.alpha = "slots" THEN SlotAlphabet ELSE PayloadAlphabet

\* the file can end here
CanEnd(f) == IF FromFile(f) THEN f.bytes = <<>> ELSE TRUE

\* the feed after n more bytes were consumed
Taken(f, n) ==
    IF FromFile(f) THEN [f EXCEPT !.bytes = SubSeq(@, n + 1, Len(@))] ELSE f

\* the feed after a dispatched byte was consumed
Dispatched(f) == IF FromFile(f) THEN Taken(f, 1) ELSE [f EXCEPT !.left = @ - 1]

\* _read_int raises struct.error when fewer than 4 bytes are left
IntMissing(f) == FromFile(f) /\ Len(f.bytes) < 4

\* the results of _read_int at the front of f: from the file's bytes, or from
\* the encoding of a drawn value n in samples (its value in .value, its
\* width in .pos)
ReadInts(f, samples) ==
    IF FromFile(f) THEN {_read_int(f.bytes, 0)}
    ELSE {_read_int(VarintBytes(n) \o <<0, 0, 0>>, 0) : n \in samples}

\* the results of read_bytes(count) at the front of f: a file's bytes, fewer
\* at the end of the file, or a drawn run of count bytes
RawRun(count, seed) == [i \in 1 .. count |-> (seed * i) % 256]

ReadBytes(f, count) ==
    IF FromFile(f) THEN {SubSeq(f.bytes, 1, IF count < Len(f.bytes) THEN count ELSE Len(f.bytes))}
    ELSE {RawRun(count, seed) : seed \in {0, 2}}

(***************************************************************************)
(* ReservObject (common/reserv_object.py).                                 *)
(***************************************************************************)
IsReservObject(val) == val.k = "obj"

IsInt(val) == val.k = "int"

\* objects.get(offset)
Get(o, offset) == IF offset \in DOMAIN o.objects THEN o.objects[offset] ELSE NoneValue

\* ReservObject.add_object for an obj that is not bytes
add_object(o, address, val) ==
    [o EXCEPT !._last_add_address = address, !.objects = Assign(@, address, val)]

\* ReservObject.add_object for bytes: one little-endian word per 4 bytes
add_bytes(o, address, bytes) ==
    LET count == Len(bytes) \div 4
        written == {address + i * 4 : i \in 0 .. count - 1}
    IN  [o EXCEPT !._last_add_address = address,
                  !.objects = [a \in DOMAIN @ \cup written |->
                                  IF a \in written THEN IntValue(read_uint32(bytes, a - address))
                                  ELSE @[a]]]

\* ReservObject.get_last_object
get_last_object(o) == Get(o, o._last_add_address)

\* ReservObject.get_aligned_object
get_aligned_object(o, offset) ==
    LET obj == Get(o, offset)
        obj2 == Get(o, offset + 4)
    IN  IF kPointerSize = 4 THEN obj
        ELSE IF IsInt(obj) /\ IsInt(obj2) THEN IntValue(obj2.w \o <<0, 0>>)
        ELSE obj

\* ReservObject.get_int, as a word
get_int(o, offset) ==
    LET val == Get(o, offset)
    IN  IF IsInt(val) THEN SubSeq(val.w, Len(val.w) - 1, Len(val.w)) ELSE <<0, 0>>

\* ReservObject.get_smi_int, as a word
get_smi_int(o, offset) ==
    IF kPointerSize = 4 THEN Shr32(get_int(o, offset), 1) ELSE get_int(o, offset + 4)

(***************************************************************************)
(* JscParser._read_data: the classification of a payload byte.             *)
(***************************************************************************)
kNewObject == 0
kBackref == 8
kBackrefWithSkip == 16
kRootArray == 5
kPartialSnapshotCache == 6
kExternalReference == 7
kAttachedReference == 13
kBuiltin == 14

kPlain == 0
kFromCode == 32

kStartOfObject == 0
kInnerPointer == 64

CaseState(value, where, how, within) ==
    [value |-> value, where |-> where, how |-> how, within |-> within]

case_statement(state) == state.where + state.how + state.within

_all_spaces(state) == from_int(AllocSpace, state.value - case_statement(state))

\* _new_space without the comparison with NEW_SPACE
_new_space_AnySpace(state) == from_int(AllocSpace, state.value - case_statement(state)) # None

_new_space(state) == from_int(AllocSpace, state.value - case_statement(state)) = <<NEW_SPACE>>

\* the combinations _read_data tries, in its order, each with the helper that
\* tries it
Combinations ==
    <<[do |-> "_do_all_spaces", where |-> kNewObject, how |-> kPlain, within |-> kStartOfObject],
      [do |-> "_do_all_spaces", where |-> kNewObject, how |-> kFromCode, within |-> kInnerPointer],
      [do |-> "_do_all_spaces", where |-> kBackref, how |-> kPlain, within |-> kStartOfObject],
      [do |-> "_do_all_spaces", where |-> kBackrefWithSkip, how |-> kPlain, within |-> kStartOfObject],
      [do |-> "_do_all_spaces", where |-> kBackref, how |-> kFromCode, within |-> kInnerPointer],
      [do |-> "_do_all_spaces", where |-> kBackrefWithSkip, how |-> kFromCode, within |-> kInnerPointer],
      [do |-> "_do_new_space", where |-> kRootArray, how |-> kPlain, within |-> kStartOfObject],
      [do |-> "_do_new_space", where |-> kExternalReference, how |-> kPlain, within |-> kStartOfObject],
      [do |-> "_do_new_space", where |-> kExternalReference, how |-> kFromCode, within |-> kStartOfObject],
      [do |-> "_do_new_space", where |-> kAttachedReference, how |-> kPlain, within |-> kStartOfObject],
      [do |-> "_do_new_space", where |-> kAttachedReference, how |-> kFromCode, within |-> kStartOfObject],
      [do |-> "_do_new_space", where |-> kAttachedReference, how |-> kFromCode, within |-> kInnerPointer],
      [do |-> "_do_new_space", where |-> kBuiltin, how |-> kPlain, within |-> kStartOfObject],
      [do |-> "_do_new_space", where |-> kBuiltin, how |-> kFromCode, within |-> kStartOfObject]>>

StateOf(b, c) == CaseState(b, c.where, c.how, c.within)

\* the result of _do_all_spaces / _do_new_space for combination c is not -1
Matches(b, c) ==
    IF c.do = "_do_all_spaces" THEN _all_spaces(StateOf(b, c)) # None
    ELSE _new_space(StateOf(b, c))

\* the first combination of the sequence that takes b, 0 when none does
FirstMatch(b) ==
    IF \E i \in DOMAIN Combinations : Matches(b, Combinations[i])
    THEN CHOOSE i \in DOMAIN Combinations :
            /\ Matches(b, Combinations[i])
            /\ \A j \in 1 .. (i - 1) : ~Matches(b, Combinations[j])
    ELSE 0

\* the branch of _read_space_data a byte taken by a combination runs
SpaceDataBranch(b) ==
    LET c == Combinations[FirstMatch(b)]
    IN  IF FirstMatch(b) = 0 THEN "none"
        ELSE IF c.where = kNewObject /\ c.how = kPlain /\ c.within = kStartOfObject
        THEN "_read_object"
        ELSE IF c.where = kNewObject THEN "pass"
        ELSE IF c.where = kBackref THEN "kBackref"
        ELSE IF c.where = kBackrefWithSkip THEN "pass"
        ELSE IF c.where = kRootArray THEN "kRootArray"
        ELSE IF c.where = kPartialSnapshotCache THEN "pass"
        ELSE IF c.where = kExternalReference THEN "pass"
        ELSE IF c.where = kAttachedReference THEN "kAttachedReference"
        ELSE IF c.where = kBuiltin THEN "kBuiltin"
        ELSE "pass"

\* the branch of the special opcodes a byte taken by no combination runs
SpecialBranch(b) ==
    IF b = \h0F THEN "kSkip"
    ELSE IF b \in {\h1B, \h1C} THEN "skip"
    ELSE IF b = \h2F THEN "kNop"
    ELSE IF b = \h4F THEN "kNextChunk"
    ELSE IF b = \h6F THEN "kDeferred"
    ELSE IF b = \h18 THEN "skip"
    ELSE IF b = \h1A THEN "kVariableRawData"
    ELSE IF b = \h19 THEN "kVariableRepeat"
    ELSE IF b \in {\h15, \h16, \h17} THEN "kAlignmentPrefix"
    ELSE IF \hA0 <= b /\ b <= \hBF THEN "skip"
    ELSE IF \h80 <= b /\ b <= \h9F THEN "kRootArrayConstants"
    ELSE IF \h58 <= b /\ b <= \h5F THEN "skip"
    ELSE IF \h38 <= b /\ b <= \h3F THEN "kHotObject"
    ELSE IF \hC0 <= b /\ b <= \hDF THEN "kFixedRawData"
    ELSE IF \hE0 <= b /\ b <= \hEF THEN "kFixedRepeat"
    ELSE "raise"

\* the branch of one iteration of _read_data's loop on byte b
Branch(b) == IF FirstMatch(b) # 0 THEN SpaceDataBranch(b) ELSE SpecialBranch(b)

\* the space _read_space_data works on for a byte taken by a combination
SpaceOf(b) ==
    LET c == Combinations[FirstMatch(b)]
        space == IF c.do = "_do_all_spaces" THEN _all_spaces(StateOf(b, c)) ELSE <<NEW_SPACE>>
    IN  IF space = <<NEW_SPACE>> THEN <<NEW_SPACE>> ELSE from_int(AllocSpace, BitAnd(b, 7))

(***************************************************************************)
(* JscParser: back-references, fillers.                                    *)
(***************************************************************************)
\* dict.get(key, default)
GetOr(map, key, default) == IF key \in DOMAIN map THEN map[key] ELSE default

\* _get_back_referenced_object after its _read_int returned back_ref: the
\* object returned, and whether the hot ring took it
_get_back_referenced_object(space, back_ref) ==
    LET d == DecodeBackRef(is_32bit, space, back_ref)
        chunks == GetOr(reserv, space, <<>>)
    IN  IF d.chunk_index >= Len(chunks)
        THEN [back_obj |-> NoneValue, promoted |-> FALSE,
              chunk_index |-> d.chunk_index, chunk_offset |-> d.chunk_offset]
        ELSE [back_obj |-> get_aligned_object(heap[chunks[d.chunk_index + 1]], d.chunk_offset),
              promoted |-> TRUE,
              chunk_index |-> d.chunk_index, chunk_offset |-> d.chunk_offset]

\* the promotion without the mask & 7
Promote_NoWrap(obj) ==
    /\ hots' = Assign(hots, last_hot_index, obj)
    /\ last_hot_index' = last_hot_index + 1

\* hots[last_hot_index] = obj; last_hot_index = (last_hot_index + 1) & 7
Promote(obj) ==
    /\ hots' = Assign(hots, last_hot_index, obj)
    /\ last_hot_index' = BitAnd(last_hot_index + 1, 7)

\* the member next_alignment holds, -1 when it holds None
Alignment == IF next_alignment = None THEN -1 ELSE next_alignment[1]

_get_maximum_fill_to_align ==
    IF Alignment = kWordAligned THEN 0
    ELSE IF Alignment \in {kDoubleAligned, kDoubleUnaligned} THEN 8 - kPointerSize
    ELSE 0

RootOr(i) == IF Len(roots) > i THEN roots[i + 1] ELSE NoneValue

_create_filler_object(o, address, size) ==
    IF size = 0 THEN add_object(o, address, NoneValue)
    ELSE IF size = kPointerSize THEN add_object(o, address, RootOr(1))
    ELSE IF size = 2 * kPointerSize THEN add_object(o, address, RootOr(2))
    ELSE add_object(o, address, RootOr(0))

\* _align_with_filler on the chunk o
_align_with_filler(o, address, object_size, filler_size) ==
    LET pre_filler == _get_fill_to_align(Alignment, kPointerSize, address)
        o1 == IF pre_filler # 0 THEN _create_filler_object(o, address, pre_filler) ELSE o
        address1 == IF pre_filler # 0 THEN address + pre_filler ELSE address
        filler_size1 == IF pre_filler # 0 THEN filler_size - pre_filler ELSE filler_size
    IN  IF filler_size1 # 0
        THEN _create_filler_object(o1, address1 + object_size, filler_size1)
        ELSE o1

\* _repeat_object: the object after count copies of last_obj from insert_off on
_repeat_object(o, insert_off, last_obj, count) ==
    LET written == {insert_off + i * kPointerSize : i \in 0 .. count - 1}
    IN  IF count = 0 THEN o
        ELSE [o EXCEPT !._last_add_address = insert_off + (count - 1) * kPointerSize,
                       !.objects = [a \in DOMAIN @ \cup written |->
                                       IF a \in written THEN last_obj ELSE @[a]]]

(***************************************************************************)
(* JscParser._read_data: one action per branch of the loop body.  Values   *)
(* of varints of a drawn payload come from the sample sets below.          *)
(***************************************************************************)
SizeSamples == {0, 1, 2}

BackRefSamples ==
    {BackRefWord(is_32bit, 0, 0), BackRefWord(is_32bit, 0, kPointerSize),
     BackRefWord(is_32bit, 1, 0)}

RootIndexSamples == {0, Len(roots)}

IndexSamples == {0, 2}

SkipSamples == {0, kPointerSize}

CountSamples == {0, 2}

Top == stack[Len(stack)]

\* the loop of _read_data reads the byte b, which takes the given branch
Reads(b, branch) ==
    /\ pc = "_read_data"
    /\ Top.insert_off < Top.size
    /\ b \in NextBytes(feed)
    /\ Branch(b) = branch

Event(b, branch) ==
    [kind |-> "_read_data", b |-> b, at |-> pos, branch |-> branch, obj |-> Top.obj,
     insert_off |-> Top.insert_off, raised |-> FALSE]

\* Consumed that leaves the position of the reader where it was
Consumed_Still(f, n) ==
    /\ feed' = f
    /\ pos' = pos

\* the reader is left at feed f, n bytes after the dispatched byte
Consumed(f, n) ==
    /\ feed' = f
    /\ pos' = pos + 1 + n

SetInsertOff(off) == stack' = [stack EXCEPT ![Len(stack)].insert_off = off]

StillParsing == UNCHANGED <<pc, exit_status, stderr>>

Fixed == UNCHANGED <<inputVars, stdout, version, is_32bit, reserv, pureVars, reconVars>>

\* an exception leaves the parser's state as it is
Raise(e, f, n) ==
    /\ ParseFailed(e)
    /\ Consumed(f, n)
    /\ UNCHANGED <<stack, heap, hots, last_hot_index, next_alignment, last_chunk_index>>

\* _read_int fails at the end of the file
RaiseIntMissing(f) == Raise(StructError(pos + 1, pos + 1 + Len(f.bytes)), f, 0)

\* _read_data returns: parse and the deferred loop go on, _read_object
\* installs the new object in the enclosing object, whose loop continues
\* behind it
Return ==
    IF Top.caller = "_read_object"
    THEN LET parent == stack[Len(stack) - 1]
         IN  /\ heap' = [heap EXCEPT ![parent.obj] =
                            add_object(@, parent.insert_off, Value("obj", Top.obj))]
             /\ stack' = [SubSeq(stack, 1, Len(stack) - 1) EXCEPT
                            ![Len(stack) - 1].insert_off = parent.insert_off + kPointerSize]
             /\ pc' = "_read_data"
    ELSE /\ heap' = heap
         /\ stack' = <<>>
         /\ pc' = "_deserialize_deferred_objects"

\* the loop condition insert_off < size fails
EndOfObject ==
    /\ pc = "_read_data"
    /\ Top.insert_off >= Top.size
    /\ Return
    /\ event' = [kind |-> "return", obj |-> Top.obj]
    /\ UNCHANGED <<feed, pos, hots, last_hot_index, next_alignment, last_chunk_index,
                   exit_status, stderr>>
    /\ Fixed

\* read_byte at the end of the file
EndOfData ==
    /\ pc \in {"_read_data", "_deserialize_deferred_objects"}
    /\ pc = "_read_data" => Top.insert_off < Top.size
    /\ CanEnd(feed)
    /\ ParseFailed(EndOfFile)
    /\ event' = [kind |-> "end of file", at |-> pos]
    /\ UNCHANGED <<feed, parserVars>>
    /\ Fixed

\* kNewObject, kPlain, kStartOfObject: _read_object
NewObject ==
    \E b \in NextBytes(feed) :
        /\ Reads(b, "_read_object")
        /\ LET f == Dispatched(feed)
           IN  IF IntMissing(f)
               THEN /\ RaiseIntMissing(f)
                    /\ event' = [Event(b, "_read_object") EXCEPT !.raised = TRUE]
               ELSE \E r \in ReadInts(f, SizeSamples) :
                      LET size == ShiftLeft(r.value, kPointerSizeLog2)
                          space == SpaceOf(b)
                          space_chunk == GetOr(last_chunk_index, space, 0)
                          chunks == GetOr(reserv, space, <<>>)
                          has_chunk == space_chunk < Len(chunks)
                          id == chunks[space_chunk + 1]
                          filler == _get_maximum_fill_to_align
                          aligned ==
                              IF next_alignment # <<kWordAligned>> /\ has_chunk
                              THEN [heap EXCEPT ![id] =
                                      [_align_with_filler(@, @.offset, size, filler)
                                          EXCEPT !.offset = heap[id].offset + filler]]
                              ELSE heap
                          address == aligned[id].offset
                          new_obj == Len(heap) + 1
                      IN  /\ Consumed(Taken(f, r.pos), r.pos)
                          /\ next_alignment' = <<kWordAligned>>
                          /\ IF has_chunk
                             THEN /\ heap' = Append(
                                        [aligned EXCEPT ![id] =
                                            [add_object(@, address, Value("obj", new_obj))
                                                EXCEPT !.offset = address + size]],
                                        ReservObject(size))
                                  /\ stack' = Append(stack,
                                        Frame(new_obj, size, space, 0, "_read_object"))
                                  /\ event' = Event(b, "_read_object") @@
                                        [space |-> space, chunk |-> id, address |-> address,
                                         size |-> size, new_obj |-> new_obj,
                                         alignment |-> next_alignment,
                                         cursor |-> heap[id].offset]
                             ELSE /\ heap' = aligned
                                  /\ SetInsertOff(Top.insert_off + kPointerSize)
                                  /\ event' = Event(b, "_read_object") @@
                                        [space |-> space, chunk |-> 0, address |-> 0,
                                         size |-> size, new_obj |-> 0,
                                         alignment |-> next_alignment, cursor |-> 0]
                          /\ StillParsing
                          /\ UNCHANGED <<hots, last_hot_index, last_chunk_index>>
        /\ Fixed

\* the combinations _read_space_data passes over: the slot is left empty
PassOver ==
    \E b \in NextBytes(feed) :
        /\ Reads(b, "pass")
        /\ Consumed(Dispatched(feed), 0)
        /\ SetInsertOff(Top.insert_off + kPointerSize)
        /\ event' = Event(b, "pass")
        /\ StillParsing
        /\ UNCHANGED <<heap, hots, last_hot_index, next_alignment, last_chunk_index>>
        /\ Fixed

\* kBackref, plain or from code
Backref ==
    \E b \in NextBytes(feed) :
        /\ Reads(b, "kBackref")
        /\ LET f == Dispatched(feed)
           IN  IF IntMissing(f)
               THEN /\ RaiseIntMissing(f)
                    /\ event' = [Event(b, "kBackref") EXCEPT !.raised = TRUE]
               ELSE \E r \in ReadInts(f, BackRefSamples) :
                      LET space == from_int(AllocSpace, BitAnd(b, 7))
                          ref == _get_back_referenced_object(space, r.value)
                      IN  /\ Consumed(Taken(f, r.pos), r.pos)
                          /\ IF ref.promoted THEN Promote(ref.back_obj)
                             ELSE UNCHANGED <<hots, last_hot_index>>
                          /\ heap' = [heap EXCEPT ![Top.obj] =
                                        add_object(@, Top.insert_off, ref.back_obj)]
                          /\ SetInsertOff(Top.insert_off + kPointerSize)
                          /\ event' = Event(b, "kBackref") @@ [space |-> space] @@ ref
                          /\ StillParsing
                          /\ UNCHANGED <<next_alignment, last_chunk_index>>
        /\ Fixed

\* kRootArray
RootArray ==
    \E b \in NextBytes(feed) :
        /\ Reads(b, "kRootArray")
        /\ LET f == Dispatched(feed)
           IN  IF IntMissing(f)
               THEN /\ RaiseIntMissing(f)
                    /\ event' = [Event(b, "kRootArray") EXCEPT !.raised = TRUE]
               ELSE \E r \in ReadInts(f, RootIndexSamples) :
                      IF r.value >= Len(roots)
                      THEN /\ Raise(ListIndexError, Taken(f, r.pos), r.pos)
                           /\ event' = [Event(b, "kRootArray") EXCEPT !.raised = TRUE]
                      ELSE /\ Consumed(Taken(f, r.pos), r.pos)
                           /\ Promote(roots[r.value + 1])
                           /\ heap' = [heap EXCEPT ![Top.obj] =
                                         add_object(@, Top.insert_off, roots[r.value + 1])]
                           /\ SetInsertOff(Top.insert_off + kPointerSize)
                           /\ event' = Event(b, "kRootArray") @@ [idx |-> r.value]
                           /\ StillParsing
                           /\ UNCHANGED <<next_alignment, last_chunk_index>>
        /\ Fixed

\* self.attached
attached == <<Value("attached", 0)>>

\* kAttachedReference and kBuiltin on byte b: an index into a list of strings
ListReference(b, branch, list) ==
    /\ Reads(b, branch)
    /\ LET f == Dispatched(feed)
       IN  IF IntMissing(f)
           THEN /\ RaiseIntMissing(f)
                /\ event' = [Event(b, branch) EXCEPT !.raised = TRUE]
           ELSE \E r \in ReadInts(f, IndexSamples) :
                  /\ Consumed(Taken(f, r.pos), r.pos)
                  /\ heap' = IF r.value < Len(list)
                             THEN [heap EXCEPT ![Top.obj] =
                                     add_object(@, Top.insert_off, list[r.value + 1])]
                             ELSE heap
                  /\ SetInsertOff(Top.insert_off + kPointerSize)
                  /\ event' = Event(b, branch) @@ [idx |-> r.value]
                  /\ StillParsing
                  /\ UNCHANGED <<hots, last_hot_index, next_alignment, last_chunk_index>>
    /\ Fixed

AttachedReference ==
    \E b \in NextBytes(feed) :
        /\ pc = "_read_data"
        /\ ListReference(b, "kAttachedReference", attached)

Builtin ==
    \E b \in NextBytes(feed) :
        /\ pc = "_read_data"
        /\ ListReference(b, "kBuiltin", builtins)

\* kSkip
Skip ==
    /\ Reads(\h0F, "kSkip")
    /\ LET f == Dispatched(feed)
       IN  IF IntMissing(f)
           THEN /\ RaiseIntMissing(f)
                /\ event' = [Event(\h0F, "kSkip") EXCEPT !.raised = TRUE]
           ELSE \E r \in ReadInts(f, SkipSamples) :
                  /\ Consumed(Taken(f, r.pos), r.pos)
                  /\ SetInsertOff(Top.insert_off + r.value)
                  /\ event' = Event(\h0F, "kSkip")
                  /\ StillParsing
                  /\ UNCHANGED <<heap, hots, last_hot_index, next_alignment, last_chunk_index>>
    /\ Fixed

\* kInternalReferenceEncoded, kInternalReference, kSynchronize, and the
\* ranges kRootArrayConstantsWithSkip and kHotObjectsWithSkip
Ignored ==
    \E b \in NextBytes(feed) :
        /\ Reads(b, "skip")
        /\ Consumed(Dispatched(feed), 0)
        /\ event' = Event(b, "skip")
        /\ StillParsing
        /\ UNCHANGED <<stack, heap, hots, last_hot_index, next_alignment, last_chunk_index>>
        /\ Fixed

\* kNop
Nop ==
    /\ Reads(\h2F, "kNop")
    /\ Consumed(Dispatched(feed), 0)
    /\ Return
    /\ event' = Event(\h2F, "kNop")
    /\ UNCHANGED <<hots, last_hot_index, next_alignment, last_chunk_index, exit_status, stderr>>
    /\ Fixed

\* kNextChunk
NextChunk ==
    /\ Reads(\h4F, "kNextChunk")
    /\ LET f == Dispatched(feed)
       IN  IF FromFile(f) /\ f.bytes = <<>>
           THEN /\ Raise(EndOfFile, f, 0)
                /\ event' = [Event(\h4F, "kNextChunk") EXCEPT !.raised = TRUE]
           ELSE \E new_chunk \in (IF FromFile(f) THEN {f.bytes[1]} ELSE {0, 1}) :
                  /\ Consumed(Taken(f, 1), 1)
                  /\ last_chunk_index' = Assign(last_chunk_index, Top.space, new_chunk)
                  /\ event' = Event(\h4F, "kNextChunk")
                  /\ StillParsing
                  /\ UNCHANGED <<stack, heap, hots, last_hot_index, next_alignment>>
    /\ Fixed

\* kDeferred
Deferred ==
    /\ Reads(\h6F, "kDeferred")
    /\ Consumed(Dispatched(feed), 0)
    /\ SetInsertOff(Top.size)
    /\ event' = Event(\h6F, "kDeferred")
    /\ StillParsing
    /\ UNCHANGED <<heap, hots, last_hot_index, next_alignment, last_chunk_index>>
    /\ Fixed

\* kVariableRawData
VariableRawData ==
    /\ Reads(\h1A, "kVariableRawData")
    /\ LET f == Dispatched(feed)
       IN  IF IntMissing(f)
           THEN /\ RaiseIntMissing(f)
                /\ event' = [Event(\h1A, "kVariableRawData") EXCEPT !.raised = TRUE]
           ELSE \E r \in ReadInts(f, {0, 4, 6, 8}) :
                \E raw_data \in ReadBytes(Taken(f, r.pos), r.value) :
                  /\ Consumed(Taken(f, r.pos + r.value), r.pos + r.value)
                  /\ heap' = [heap EXCEPT ![Top.obj] = add_bytes(@, Top.insert_off, raw_data)]
                  /\ event' = Event(\h1A, "kVariableRawData") @@
                                [size_in_bytes |-> r.value, raw_data |-> raw_data]
                  /\ StillParsing
                  /\ UNCHANGED <<stack, hots, last_hot_index, next_alignment, last_chunk_index>>
    /\ Fixed

\* kVariableRepeat
VariableRepeat ==
    /\ Reads(\h19, "kVariableRepeat")
    /\ LET f == Dispatched(feed)
       IN  IF IntMissing(f)
           THEN /\ RaiseIntMissing(f)
                /\ event' = [Event(\h19, "kVariableRepeat") EXCEPT !.raised = TRUE]
           ELSE \E r \in ReadInts(f, CountSamples) :
                  /\ Consumed(Taken(f, r.pos), r.pos)
                  /\ heap' = [heap EXCEPT ![Top.obj] =
                                _repeat_object(@, Top.insert_off, get_last_object(@), r.value)]
                  /\ SetInsertOff(Top.insert_off + r.value * kPointerSize)
                  /\ event' = Event(\h19, "kVariableRepeat") @@ [repeats |-> r.value]
                  /\ StillParsing
                  /\ UNCHANGED <<hots, last_hot_index, next_alignment, last_chunk_index>>
    /\ Fixed

\* kAlignmentPrefix
AlignmentPrefix ==
    \E b \in NextBytes(feed) :
        /\ Reads(b, "kAlignmentPrefix")
        /\ Consumed(Dispatched(feed), 0)
        /\ next_alignment' = from_int(AllocationAlignment, b - (\h15 - 1))
        /\ event' = Event(b, "kAlignmentPrefix")
        /\ StillParsing
        /\ UNCHANGED <<stack, heap, hots, last_hot_index, last_chunk_index>>
        /\ Fixed

\* kRootArrayConstants
RootArrayConstants ==
    \E b \in NextBytes(feed) :
        /\ Reads(b, "kRootArrayConstants")
        /\ IF BitAnd(b, \h1F) >= Len(roots)
           THEN /\ Raise(ListIndexError, Dispatched(feed), 0)
                /\ event' = [Event(b, "kRootArrayConstants") EXCEPT !.raised = TRUE]
           ELSE /\ Consumed(Dispatched(feed), 0)
                /\ heap' = [heap EXCEPT ![Top.obj] =
                              add_object(@, Top.insert_off, roots[BitAnd(b, \h1F) + 1])]
                /\ SetInsertOff(Top.insert_off + kPointerSize)
                /\ event' = Event(b, "kRootArrayConstants")
                /\ StillParsing
                /\ UNCHANGED <<hots, last_hot_index, next_alignment, last_chunk_index>>
        /\ Fixed

\* kHotObject
HotObject ==
    \E b \in NextBytes(feed) :
        /\ Reads(b, "kHotObject")
        /\ Consumed(Dispatched(feed), 0)
        /\ heap' = [heap EXCEPT ![Top.obj] =
                      add_object(@, Top.insert_off, GetOr(hots, BitAnd(b, 7), NoneValue))]
        /\ SetInsertOff(Top.insert_off + kPointerSize)
        /\ event' = Event(b, "kHotObject")
        /\ StillParsing
        /\ UNCHANGED <<hots, last_hot_index, next_alignment, last_chunk_index>>
        /\ Fixed

\* kFixedRawData
FixedRawData ==
    \E b \in NextBytes(feed) :
        /\ Reads(b, "kFixedRawData")
        /\ LET f == Dispatched(feed)
               size_in_bytes == ShiftLeft(b - (\hC0 - 1), kPointerSizeLog2)
           IN  \E raw_data \in ReadBytes(f, size_in_bytes) :
                  /\ Consumed(Taken(f, size_in_bytes), size_in_bytes)
                  /\ heap' = [heap EXCEPT ![Top.obj] = add_bytes(@, Top.insert_off, raw_data)]
                  /\ SetInsertOff(Top.insert_off + size_in_bytes)
                  /\ event' = Event(b, "kFixedRawData") @@
                                [size_in_bytes |-> size_in_bytes, raw_data |-> raw_data]
        /\ StillParsing
        /\ UNCHANGED <<hots, last_hot_index, next_alignment, last_chunk_index>>
        /\ Fixed

\* kFixedRepeat
FixedRepeat ==
    \E b \in NextBytes(feed) :
        /\ Reads(b, "kFixedRepeat")
        /\ Consumed(Dispatched(feed), 0)
        /\ heap' = [heap EXCEPT ![Top.obj] =
                      _repeat_object(@, Top.insert_off, get_last_object(@), b - (\hE0 - 1))]
        /\ SetInsertOff(Top.insert_off + (b - (\hE0 - 1)) * kPointerSize)
        /\ event' = Event(b, "kFixedRepeat") @@ [repeats |-> b - (\hE0 - 1)]
        /\ StillParsing
        /\ UNCHANGED <<hots, last_hot_index, next_alignment, last_chunk_index>>
        /\ Fixed

\* the message with the offset behind the byte, reader.pos as read_byte left it
WrongByteError_Behind(b, at) ==
    Exception(<<"Wrong JSC byte data: 0x%02X at pos 0x%X">>, <<Hex02(b), Hex(at + 1)>>)

\* the message of the ValueError for byte b read at offset at
WrongByteError(b, at) ==
    Exception(<<"Wrong JSC byte data: 0x%02X at pos 0x%X">>, <<Hex02(b), Hex(at)>>)

\* a byte that no combination and no special opcode takes
WrongByte ==
    \E b \in NextBytes(feed) :
        /\ Reads(b, "raise")
        /\ Raise(WrongByteError(b, (pos + 1) - 1), Dispatched(feed), 0)
        /\ event' = [Event(b, "raise") EXCEPT !.raised = TRUE]
        /\ Fixed

(***************************************************************************)
(* JscParser._deserialize_deferred_objects: one action per branch.         *)
(***************************************************************************)
ReadsDeferred(b) ==
    /\ pc = "_deserialize_deferred_objects"
    /\ b \in NextBytes(feed)

DeferredEvent(b, branch) == [kind |-> "deferred", b |-> b, at |-> pos, branch |-> branch]

DeferredAlignmentPrefix ==
    \E b \in {\h15, \h16, \h17} :
        /\ ReadsDeferred(b)
        /\ Consumed(Dispatched(feed), 0)
        /\ next_alignment' = from_int(AllocationAlignment, b - (\h15 - 1))
        /\ event' = DeferredEvent(b, "kAlignmentPrefix")
        /\ StillParsing
        /\ UNCHANGED <<stack, heap, hots, last_hot_index, last_chunk_index>>
        /\ Fixed

\* kSynchronize ends the loop: parse goes on to collect the functions
DeferredSynchronize ==
    /\ ReadsDeferred(\h18)
    /\ Consumed(Dispatched(feed), 0)
    /\ pc' = "results"
    /\ event' = DeferredEvent(\h18, "kSynchronize")
    /\ UNCHANGED <<stack, heap, hots, last_hot_index, next_alignment, last_chunk_index,
                   exit_status, stderr>>
    /\ Fixed

\* any other byte: a back-reference into space b & 7 and a size, then
\* _read_data on the object referred to
DeferredObject ==
    \E b \in NextBytes(feed) \ {\h15, \h16, \h17, \h18} :
        /\ ReadsDeferred(b)
        /\ LET f == Dispatched(feed)
               space == from_int(AllocSpace, BitAnd(b, 7))
           IN  IF IntMissing(f)
               THEN /\ RaiseIntMissing(f)
                    /\ event' = DeferredEvent(b, "raise")
               ELSE \E r \in ReadInts(f, BackRefSamples) :
                      LET ref == _get_back_referenced_object(space, r.value)
                          f2 == Taken(f, r.pos)
                      IN  IF IntMissing(f2)
                          THEN /\ ParseFailed(StructError(pos + 1 + r.pos,
                                                          pos + 1 + r.pos + Len(f2.bytes)))
                               /\ Consumed(f2, r.pos)
                               /\ IF ref.promoted THEN Promote(ref.back_obj)
                                  ELSE UNCHANGED <<hots, last_hot_index>>
                               /\ event' = DeferredEvent(b, "raise")
                               /\ UNCHANGED <<stack, heap, next_alignment, last_chunk_index>>
                          ELSE \E s \in ReadInts(f2, SizeSamples) :
                                 /\ Consumed(Taken(f2, s.pos), r.pos + s.pos)
                                 /\ IF ref.promoted THEN Promote(ref.back_obj)
                                    ELSE UNCHANGED <<hots, last_hot_index>>
                                 /\ IF IsReservObject(ref.back_obj)
                                    THEN /\ stack' = <<Frame(ref.back_obj.v,
                                                         ShiftLeft(s.value, kPointerSizeLog2),
                                                         space, kPointerSize,
                                                         "_deserialize_deferred_objects")>>
                                         /\ pc' = "_read_data"
                                    ELSE UNCHANGED <<stack, pc>>
                                 /\ event' = DeferredEvent(b, "object") @@ [space |-> space] @@ ref
                                 /\ UNCHANGED <<heap, next_alignment, last_chunk_index,
                                                exit_status, stderr>>
        /\ Fixed

(***************************************************************************)
(* JscParser.parse: the functions of the heap; the pipeline's output.      *)
(***************************************************************************)
_get_script_offset ==
    LET kCodeOffset == kPointerSize
        kNameOffset == kCodeOffset + kPointerSize
        kScopeInfoOffset == kNameOffset + kPointerSize
        kOuterScopeInfoOffset == kScopeInfoOffset + kPointerSize
        kConstructStubOffset == kOuterScopeInfoOffset + kPointerSize
        kInstanceClassNameOffset == kConstructStubOffset + kPointerSize
        kFunctionDataOffset == kInstanceClassNameOffset + kPointerSize
    IN  kFunctionDataOffset + kPointerSize

\* i < w for a small i and a word w
Below(i, w) == IF w[1] >= 32768 THEN TRUE ELSE i < ToInt(w)

RECURSIVE Ascending(_)
\* the members of a set of integers in ascending order
Ascending(S) ==
    IF S = {} THEN <<>>
    ELSE LET least == CHOOSE x \in S : \A y \in S : x <= y
         IN  <<least>> \o Ascending(S \ {least})

\* _load_space_objects: the ids of the function objects of a chunk, in order
_load_space_objects(space_objs) ==
    LET first_func == get_aligned_object(heap[space_objs], 0)
        script == get_aligned_object(heap[first_func.v], _get_script_offset)
        shared_funcs == get_aligned_object(heap[script.v], 12 * kPointerSize)
        array_length_offset == kPointerSize
        array_header_size == array_length_offset + kPointerSize
        sf == heap[shared_funcs.v]
        sf_count == get_smi_int(sf, array_length_offset)
        weak_func(i) == get_aligned_object(sf, array_header_size + i * kPointerSize)
        func(i) == get_aligned_object(heap[weak_func(i).v], kPointerSize)
        found == {i \in 0 .. 255 :
                    /\ Below(i, sf_count)
                    /\ IsReservObject(weak_func(i))
                    /\ IsReservObject(func(i))}
    IN  IF ~IsReservObject(first_func) THEN <<>>
        ELSE IF ~IsReservObject(script) THEN <<>>
        ELSE IF ~IsReservObject(shared_funcs) THEN <<>>
        ELSE [n \in 1 .. Cardinality(found) |-> func(Ascending(found)[n]).v]

\* parse from the end of the deferred loop to its return, and the rest of
\* _run_legacy_pipeline; the output is the list of the function objects
results ==
    /\ pc = "results"
    /\ LET old_space_chunks == GetOr(reserv, <<OLD_SPACE>>, <<>>)
           func_objects ==
               Concat([i \in 1 .. Len(old_space_chunks) |->
                          _load_space_objects(old_space_chunks[i])])
       IN  IF func_objects = <<>>
           THEN /\ Exit(0, IF ~args.quiet
                           THEN <<Message(<<"No functions found in JSC file.">>, <<>>)>>
                           ELSE <<>>)
                /\ UNCHANGED stdout
           ELSE /\ Exit(0, (IF ~args.quiet /\ ~args.json
                            THEN <<Message(<<"Converting %d function objects...">>,
                                           <<Dec(Len(func_objects))>>)>>
                            ELSE <<>>))
                /\ stdout' = Append(stdout, func_objects)
    /\ event' = [kind |-> "results"]
    /\ UNCHANGED <<inputVars, feed, version, is_32bit, parserVars, pureVars, reconVars>>

Next ==
    \/ main
    \/ _run_legacy_pipeline
    \/ parse
    \/ EndOfObject
    \/ EndOfData
    \/ NewObject
    \/ PassOver
    \/ Backref
    \/ RootArray
    \/ AttachedReference
    \/ Builtin
    \/ Skip
    \/ Ignored
    \/ Nop
    \/ NextChunk
    \/ Deferred
    \/ VariableRawData
    \/ VariableRepeat
    \/ AlignmentPrefix
    \/ RootArrayConstants
    \/ HotObject
    \/ FixedRawData
    \/ FixedRepeat
    \/ WrongByte
    \/ DeferredAlignmentPrefix
    \/ DeferredSynchronize
    \/ DeferredObject
    \/ results

Spec == Init /\ [][Next]_vars

(***************************************************************************)
(* Version hashes (common/version.py).  A Python int is the sequence of    *)
(* its base-256 digits, least significant first, of any length; _mask32    *)
(* and _mask64 keep the low 4 and 8 digits.                                *)
(***************************************************************************)
RECURSIVE Base256(_)
\* the base-256 digits of the small integer n
Base256(n) == IF n = 0 THEN <<>> ELSE <<n % 256>> \o Base256(n \div 256)

\* digit i of a, 0 past either end
Digit(a, i) == IF i >= 1 /\ i <= Len(a) THEN a[i] ELSE 0

Longer(a, b) == IF Len(a) >= Len(b) THEN Len(a) ELSE Len(b)

_mask32(v) == <<Digit(v, 1), Digit(v, 2), Digit(v, 3), Digit(v, 4)>>

_mask64(v) ==
    <<Digit(v, 1), Digit(v, 2), Digit(v, 3), Digit(v, 4),
      Digit(v, 5), Digit(v, 6), Digit(v, 7), Digit(v, 8)>>

RECURSIVE BitXor(_, _)
BitXor(a, b) ==
    IF a = 0 THEN b
    ELSE IF b = 0 THEN a
    ELSE ((a + b) % 2) + 2 * BitXor(a \div 2, b \div 2)

RECURSIVE BitOr(_, _)
BitOr(a, b) ==
    IF a = 0 THEN b
    ELSE IF b = 0 THEN a
    ELSE (IF a % 2 = 1 \/ b % 2 = 1 THEN 1 ELSE 0) + 2 * BitOr(a \div 2, b \div 2)

\* a ^ b
IntXor(a, b) == [i \in 1 .. Longer(a, b) |-> BitXor(Digit(a, i), Digit(b, i))]

\* a | b
IntOr(a, b) == [i \in 1 .. Longer(a, b) |-> BitOr(Digit(a, i), Digit(b, i))]

\* a >> s
IntShr(a, s) ==
    LET q == s \div 8
        r == s % 8
    IN  [i \in 1 .. (IF Len(a) > q THEN Len(a) - q ELSE 0) |->
            (Digit(a, i + q) \div (2 ^ r)) + (Digit(a, i + q + 1) % (2 ^ r)) * (2 ^ (8 - r))]

\* a << s
IntShl(a, s) ==
    LET q == s \div 8
        r == s % 8
    IN  [i \in 1 .. (Len(a) + q + 1) |->
            ((Digit(a, i - q) * (2 ^ r)) % 256) + (Digit(a, i - q - 1) \div (2 ^ (8 - r)))]

RECURSIVE AddFrom(_, _, _, _, _)
AddFrom(a, b, i, carry, n) ==
    IF i > n THEN <<>>
    ELSE LET s == Digit(a, i) + Digit(b, i) + carry
         IN  <<s % 256>> \o AddFrom(a, b, i + 1, s \div 256, n)

\* a + b
IntAdd(a, b) == AddFrom(a, b, 1, 0, Longer(a, b) + 1)

RECURSIVE SubFrom(_, _, _, _, _)
SubFrom(a, b, i, borrow, n) ==
    IF i > n THEN <<>>
    ELSE LET d == Digit(a, i) - Digit(b, i) - borrow
         IN  <<(d + 256) % 256>> \o SubFrom(a, b, i + 1, IF d < 0 THEN 1 ELSE 0, n)

\* the low n digits of a - b, a negative difference in two's complement as
\* Python's & sees it
IntSub(a, b, n) == SubFrom(a, b, 1, 0, n)

RECURSIVE Column(_, _, _, _)
\* the sum of the digit products a[i] * b[k + 1 - i] from i on
Column(a, b, k, i) ==
    IF i > k THEN 0 ELSE Digit(a, i) * Digit(b, k + 1 - i) + Column(a, b, k, i + 1)

RECURSIVE MulFrom(_, _, _, _, _)
MulFrom(a, b, k, carry, n) ==
    IF k > n THEN <<>>
    ELSE LET s == Column(a, b, k, 1) + carry
         IN  <<s % 256>> \o MulFrom(a, b, k + 1, s \div 256, n)

\* a * b
IntMul(a, b) == MulFrom(a, b, 1, 0, Len(a) + Len(b))

\* hash_value_unsigned
hash_value_unsigned(v) ==
    LET v1 == _mask32(IntSub(IntSub(IntShl(v, 15), v, 4), <<1>>, 4))
        v2 == _mask32(IntXor(v1, IntShr(v1, 12)))
        v3 == _mask32(IntAdd(v2, IntShl(v2, 2)))
        v4 == _mask32(IntXor(v3, IntShr(v3, 4)))
        v5 == _mask32(IntMul(v4, Base256(2057)))
    IN  _mask32(IntXor(v5, IntShr(v5, 16)))

\* hash_combine
hash_combine(seed, value) ==
    LET value1 == _mask32(IntMul(value, <<\h51, \h2D, \h9E, \hCC>>))
        value2 == _mask32(IntOr(IntShr(value1, 15), IntShl(value1, 17)))
        value3 == _mask32(IntMul(value2, <<\h93, \h35, \h87, \h1B>>))
        seed1 == IntXor(seed, value3)
        seed2 == _mask32(IntOr(IntShr(seed1, 13), IntShl(seed1, 19)))
    IN  _mask32(IntAdd(IntMul(seed2, <<5>>), <<\h64, \h6B, \h54, \hE6>>))

\* hash_combine64
hash_combine64(seed, value) ==
    LET m == <<\h95, \hE9, \hD1, \h5B, \h93, \hA7, \hA4, \hC6>>
        value1 == _mask64(IntMul(value, m))
        value2 == _mask64(IntXor(value1, IntShr(value1, 47)))
        value3 == _mask64(IntMul(value2, m))
        seed1 == _mask64(IntXor(seed, value3))
    IN  _mask64(IntMul(seed1, m))

\* version_hash that folds major first and patch last
version_hash_order_MajorFirst == <<"major", "minor", "build", "patch">>

\* version_hash and version_hash64: the order the four numbers are folded in
version_hash_order == <<"patch", "build", "minor", "major">>

\* the state of version_hash and version_hash64 before the first statement
HashStart == [seed |-> <<>>, folded |-> 0, value |-> None]

\* one statement seed = combine(seed, hash_value_unsigned(x)) of version_hash
\* or version_hash64, and the return after the fourth
Fold(st, combine(_, _), ver, wide) ==
    LET x == ver[version_hash_order[st.folded + 1]]
        next == combine(st.seed, hash_value_unsigned(Base256(x)))
    IN  [seed |-> next, folded |-> st.folded + 1,
         value |-> IF st.folded + 1 < 4 THEN None
                   ELSE IF wide THEN <<_mask32(next)>> ELSE <<next>>]

\* the 32-bit word <<hi, lo>> of four digits
Word(v) == <<Digit(v, 4) * 256 + Digit(v, 3), Digit(v, 2) * 256 + Digit(v, 1)>>

MaxMinor == 2     \* minor version numbers 0 .. MaxMinor

\* the versions hashed: Node 8 .. 14 ship V8 5.x .. 8.x
VersionSamples ==
    {[major |-> major, minor |-> minor, build |-> build, patch |-> patch] :
        major \in 5 .. 8, minor \in 0 .. MaxMinor, build \in {0, 1, 414, 65535},
        patch \in {0, 54, 255, 256}}

HashCalls ==
    {[fn |-> f, version |-> v] : f \in {"version_hash", "version_hash64"}, v \in VersionSamples}

(***************************************************************************)
(* Disassembler (v6/disasm.py).  An instruction is the record of its       *)
(* offset, its mnemonic, the text of its operands, its raw bytes and its   *)
(* comment.  A mnemonic is the sequence of the parts of its text: the name *)
(* of the table, after "Wide" or "ExtraWide" and "." when it is prefixed.  *)
(* A constant-pool item is a record with its Python type.                  *)
(***************************************************************************)
\* the rows of OPCODES, the row of opcode 0 first
OpcodeRows ==
    <<
      [mnemonic |-> "Wide", operand_types |-> <<>>],
      [mnemonic |-> "ExtraWide", operand_types |-> <<>>],
      [mnemonic |-> "LdaZero", operand_types |-> <<>>],
      [mnemonic |-> "LdaSmi", operand_types |-> <<"kImm">>],
      [mnemonic |-> "LdaUndefined", operand_types |-> <<>>],
      [mnemonic |-> "LdaNull", operand_types |-> <<>>],
      [mnemonic |-> "LdaTheHole", operand_types |-> <<>>],
      [mnemonic |-> "LdaTrue", operand_types |-> <<>>],
      [mnemonic |-> "LdaFalse", operand_types |-> <<>>],
      [mnemonic |-> "LdaConstant", operand_types |-> <<"kIdx">>],
      [mnemonic |-> "LdaGlobal", operand_types |-> <<"kIdx", "kIdx">>],
      [mnemonic |-> "LdaGlobalInsideTypeof", operand_types |-> <<"kIdx", "kIdx">>],
      [mnemonic |-> "StaGlobalSloppy", operand_types |-> <<"kIdx", "kIdx">>],
      [mnemonic |-> "StaGlobalStrict", operand_types |-> <<"kIdx", "kIdx">>],
      [mnemonic |-> "PushContext", operand_types |-> <<"kReg">>],
      [mnemonic |-> "PopContext", operand_types |-> <<"kReg">>],
      [mnemonic |-> "LdaContextSlot", operand_types |-> <<"kReg", "kIdx", "kUImm">>],
      [mnemonic |-> "LdaImmutableContextSlot", operand_types |-> <<"kReg", "kIdx", "kUImm">>],
      [mnemonic |-> "LdaCurrentContextSlot", operand_types |-> <<"kIdx">>],
      [mnemonic |-> "LdaImmutableCurrentContextSlot", operand_types |-> <<"kIdx">>],
      [mnemonic |-> "StaContextSlot", operand_types |-> <<"kReg", "kIdx", "kUImm">>],
      [mnemonic |-> "StaCurrentContextSlot", operand_types |-> <<"kIdx">>],
      [mnemonic |-> "LdaLookupSlot", operand_types |-> <<"kIdx">>],
      [mnemonic |-> "LdaLookupContextSlot", operand_types |-> <<"kIdx", "kIdx", "kUImm">>],
      [mnemonic |-> "LdaLookupGlobalSlot", operand_types |-> <<"kIdx", "kIdx", "kUImm">>],
      [mnemonic |-> "LdaLookupSlotInsideTypeof", operand_types |-> <<"kIdx">>],
      [mnemonic |-> "LdaLookupContextSlotInsideTypeof", operand_types |-> <<"kIdx", "kIdx", "kUImm">>],
      [mnemonic |-> "LdaLookupGlobalSlotInsideTypeof", operand_types |-> <<"kIdx", "kIdx", "kUImm">>],
      [mnemonic |-> "StaLookupSlot", operand_types |-> <<"kIdx", "kFlag8">>],
      [mnemonic |-> "Ldar", operand_types |-> <<"kReg">>],
      [mnemonic |-> "Star", operand_types |-> <<"kReg">>],
      [mnemonic |-> "Mov", operand_types |-> <<"kReg", "kReg">>],
      [mnemonic |-> "LdaNamedProperty", operand_types |-> <<"kReg", "kIdx", "kIdx">>],
      [mnemonic |-> "LdaKeyedProperty", operand_types |-> <<"kReg", "kIdx">>],
      [mnemonic |-> "LdaModuleVariable", operand_types |-> <<"kImm", "kUImm">>],
      [mnemonic |-> "StaModuleVariable", operand_types |-> <<"kImm", "kUImm">>],
      [mnemonic |-> "StaNamedPropertySloppy", operand_types |-> <<"kReg", "kIdx", "kIdx">>],
      [mnemonic |-> "StaNamedPropertyStrict", operand_types |-> <<"kReg", "kIdx", "kIdx">>],
      [mnemonic |-> "StaNamedOwnProperty", operand_types |-> <<"kReg", "kIdx", "kIdx">>],
      [mnemonic |-> "StaKeyedPropertySloppy", operand_types |-> <<"kReg", "kReg", "kIdx">>],
      [mnemonic |-> "StaKeyedPropertyStrict", operand_types |-> <<"kReg", "kReg", "kIdx">>],
      [mnemonic |-> "StaDataPropertyInLiteral", operand_types |-> <<"kReg", "kReg", "kFlag8", "kIdx">>],
      [mnemonic |-> "CollectTypeProfile", operand_types |-> <<"kImm">>],
      [mnemonic |-> "Add", operand_types |-> <<"kReg", "kIdx">>],
      [mnemonic |-> "Sub", operand_types |-> <<"kReg", "kIdx">>],
      [mnemonic |-> "Mul", operand_types |-> <<"kReg", "kIdx">>],
      [mnemonic |-> "Div", operand_types |-> <<"kReg", "kIdx">>],
      [mnemonic |-> "Mod", operand_types |-> <<"kReg", "kIdx">>],
      [mnemonic |-> "BitwiseOr", operand_types |-> <<"kReg", "kIdx">>],
      [mnemonic |-> "BitwiseXor", operand_types |-> <<"kReg", "kIdx">>],
      [mnemonic |-> "BitwiseAnd", operand_types |-> <<"kReg", "kIdx">>],
      [mnemonic |-> "ShiftLeft", operand_types |-> <<"kReg", "kIdx">>],
      [mnemonic |-> "ShiftRight", operand_types |-> <<"kReg", "kIdx">>],
      [mnemonic |-> "ShiftRightLogical", operand_types |-> <<"kReg", "kIdx">>],
      [mnemonic |-> "AddSmi", operand_types |-> <<"kImm", "kIdx">>],
      [mnemonic |-> "SubSmi", operand_types |-> <<"kImm", "kIdx">>],
      [mnemonic |-> "MulSmi", operand_types |-> <<"kImm", "kIdx">>],
      [mnemonic |-> "DivSmi", operand_types |-> <<"kImm", "kIdx">>],
      [mnemonic |-> "ModSmi", operand_types |-> <<"kImm", "kIdx">>],
      [mnemonic |-> "BitwiseOrSmi", operand_types |-> <<"kImm", "kIdx">>],
      [mnemonic |-> "BitwiseXorSmi", operand_types |-> <<"kImm", "kIdx">>],
      [mnemonic |-> "BitwiseAndSmi", operand_types |-> <<"kImm", "kIdx">>],
      [mnemonic |-> "ShiftLeftSmi", operand_types |-> <<"kImm", "kIdx">>],
      [mnemonic |-> "ShiftRightSmi", operand_types |-> <<"kImm", "kIdx">>],
      [mnemonic |-> "ShiftRightLogicalSmi", operand_types |-> <<"kImm", "kIdx">>],
      [mnemonic |-> "Inc", operand_types |-> <<"kIdx">>],
      [mnemonic |-> "Dec", operand_types |-> <<"kIdx">>],
      [mnemonic |-> "ToBooleanLogicalNot", operand_types |-> <<>>],
      [mnemonic |-> "LogicalNot", operand_types |-> <<>>],
      [mnemonic |-> "TypeOf", operand_types |-> <<>>],
      [mnemonic |-> "DeletePropertyStrict", operand_types |-> <<"kReg">>],
      [mnemonic |-> "DeletePropertySloppy", operand_types |-> <<"kReg">>],
      [mnemonic |-> "GetSuperConstructor", operand_types |-> <<"kReg">>],
      [mnemonic |-> "CallAnyReceiver", operand_types |-> <<"kReg", "kRegRange", "kIdx">>],
      [mnemonic |-> "CallProperty", operand_types |-> <<"kReg", "kRegRange", "kIdx">>],
      [mnemonic |-> "CallProperty0", operand_types |-> <<"kReg", "kReg", "kIdx">>],
      [mnemonic |-> "CallProperty1", operand_types |-> <<"kReg", "kReg", "kReg", "kIdx">>],
      [mnemonic |-> "CallProperty2", operand_types |-> <<"kReg", "kReg", "kReg", "kReg", "kIdx">>],
      [mnemonic |-> "CallUndefinedReceiver", operand_types |-> <<"kReg", "kRegRange", "kIdx">>],
      [mnemonic |-> "CallUndefinedReceiver0", operand_types |-> <<"kReg", "kIdx">>],
      [mnemonic |-> "CallUndefinedReceiver1", operand_types |-> <<"kReg", "kReg", "kIdx">>],
      [mnemonic |-> "CallUndefinedReceiver2", operand_types |-> <<"kReg", "kReg", "kReg", "kIdx">>],
      [mnemonic |-> "CallWithSpread", operand_types |-> <<"kReg", "kRegRange", "kIdx">>],
      [mnemonic |-> "CallRuntime", operand_types |-> <<"kRuntimeId", "kRegRange">>],
      [mnemonic |-> "CallRuntimeForPair", operand_types |-> <<"kRuntimeId", "kRegRange", "kRegPair">>],
      [mnemonic |-> "CallJSRuntime", operand_types |-> <<"kIdx", "kRegRange">>],
      [mnemonic |-> "InvokeIntrinsic", operand_types |-> <<"kIntrinsicId", "kRegRange">>],
      [mnemonic |-> "Construct", operand_types |-> <<"kReg", "kRegRange", "kIdx">>],
      [mnemonic |-> "ConstructWithSpread", operand_types |-> <<"kReg", "kRegRange", "kIdx">>],
      [mnemonic |-> "TestEqual", operand_types |-> <<"kReg", "kIdx">>],
      [mnemonic |-> "TestEqualStrict", operand_types |-> <<"kReg", "kIdx">>],
      [mnemonic |-> "TestLessThan", operand_types |-> <<"kReg", "kIdx">>],
      [mnemonic |-> "TestGreaterThan", operand_types |-> <<"kReg", "kIdx">>],
      [mnemonic |-> "TestLessThanOrEqual", operand_types |-> <<"kReg", "kIdx">>],
      [mnemonic |-> "TestGreaterThanOrEqual", operand_types |-> <<"kReg", "kIdx">>],
      [mnemonic |-> "TestEqualStrictNoFeedback", operand_types |-> <<"kReg">>],
      [mnemonic |-> "TestInstanceOf", operand_types |-> <<"kReg">>],
      [mnemonic |-> "TestIn", operand_types |-> <<"kReg">>],
      [mnemonic |-> "TestUndetectable", operand_types |-> <<>>],
      [mnemonic |-> "TestNull", operand_types |-> <<>>],
      [mnemonic |-> "TestUndefined", operand_types |-> <<>>],
      [mnemonic |-> "TestTypeOf", operand_types |-> <<"kFlag8">>],
      [mnemonic |-> "ToName", operand_types |-> <<"kReg">>],
      [mnemonic |-> "ToNumber", operand_types |-> <<"kReg", "kIdx">>],
      [mnemonic |-> "ToObject", operand_types |-> <<"kReg">>],
      [mnemonic |-> "CreateRegExpLiteral", operand_types |-> <<"kIdx", "kIdx", "kFlag8">>],
      [mnemonic |-> "CreateArrayLiteral", operand_types |-> <<"kIdx", "kIdx", "kFlag8">>],
      [mnemonic |-> "CreateEmptyArrayLiteral", operand_types |-> <<"kIdx">>],
      [mnemonic |-> "CreateObjectLiteral", operand_types |-> <<"kIdx", "kIdx", "kFlag8", "kReg">>],
      [mnemonic |-> "CreateEmptyObjectLiteral", operand_types |-> <<>>],
      [mnemonic |-> "CreateClosure", operand_types |-> <<"kIdx", "kIdx", "kFlag8">>],
      [mnemonic |-> "CreateBlockContext", operand_types |-> <<"kIdx">>],
      [mnemonic |-> "CreateCatchContext", operand_types |-> <<"kReg", "kIdx", "kIdx">>],
      [mnemonic |-> "CreateFunctionContext", operand_types |-> <<"kUImm">>],
      [mnemonic |-> "CreateEvalContext", operand_types |-> <<"kUImm">>],
      [mnemonic |-> "CreateWithContext", operand_types |-> <<"kReg", "kIdx">>],
      [mnemonic |-> "CreateMappedArguments", operand_types |-> <<>>],
      [mnemonic |-> "CreateUnmappedArguments", operand_types |-> <<>>],
      [mnemonic |-> "CreateRestParameter", operand_types |-> <<>>],
      [mnemonic |-> "JumpLoop", operand_types |-> <<"kUImm", "kImm">>],
      [mnemonic |-> "Jump", operand_types |-> <<"kUImm">>],
      [mnemonic |-> "JumpConstant", operand_types |-> <<"kIdx">>],
      [mnemonic |-> "JumpIfNullConstant", operand_types |-> <<"kIdx">>],
      [mnemonic |-> "JumpIfNotNullConstant", operand_types |-> <<"kIdx">>],
      [mnemonic |-> "JumpIfUndefinedConstant", operand_types |-> <<"kIdx">>],
      [mnemonic |-> "JumpIfNotUndefinedConstant", operand_types |-> <<"kIdx">>],
      [mnemonic |-> "JumpIfTrueConstant", operand_types |-> <<"kIdx">>],
      [mnemonic |-> "JumpIfFalseConstant", operand_types |-> <<"kIdx">>],
      [mnemonic |-> "JumpIfJSReceiverConstant", operand_types |-> <<"kIdx">>],
      [mnemonic |-> "JumpIfToBooleanTrueConstant", operand_types |-> <<"kIdx">>],
      [mnemonic |-> "JumpIfToBooleanFalseConstant", operand_types |-> <<"kIdx">>],
      [mnemonic |-> "JumpIfToBooleanTrue", operand_types |-> <<"kUImm">>],
      [mnemonic |-> "JumpIfToBooleanFalse", operand_types |-> <<"kUImm">>],
      [mnemonic |-> "JumpIfTrue", operand_types |-> <<"kUImm">>],
      [mnemonic |-> "JumpIfFalse", operand_types |-> <<"kUImm">>],
      [mnemonic |-> "JumpIfNull", operand_types |-> <<"kUImm">>],
      [mnemonic |-> "JumpIfNotNull", operand_types |-> <<"kUImm">>],
      [mnemonic |-> "JumpIfUndefined", operand_types |-> <<"kUImm">>],
      [mnemonic |-> "JumpIfNotUndefined", operand_types |-> <<"kUImm">>],
      [mnemonic |-> "JumpIfJSReceiver", operand_types |-> <<"kUImm">>],
      [mnemonic |-> "SwitchOnSmiNoFeedback", operand_types |-> <<"kIdx", "kUImm", "kImm">>],
      [mnemonic |-> "ForInPrepare", operand_types |-> <<"kReg", "kRegTriple">>],
      [mnemonic |-> "ForInContinue", operand_types |-> <<"kReg", "kReg">>],
      [mnemonic |-> "ForInNext", operand_types |-> <<"kReg", "kReg", "kRegPair", "kIdx">>],
      [mnemonic |-> "ForInStep", operand_types |-> <<"kReg">>],
      [mnemonic |-> "StackCheck", operand_types |-> <<>>],
      [mnemonic |-> "SetPendingMessage", operand_types |-> <<>>],
      [mnemonic |-> "Throw", operand_types |-> <<>>],
      [mnemonic |-> "ReThrow", operand_types |-> <<>>],
      [mnemonic |-> "Return", operand_types |-> <<>>],
      [mnemonic |-> "ThrowReferenceErrorIfHole", operand_types |-> <<"kIdx">>],
      [mnemonic |-> "ThrowSuperNotCalledIfHole", operand_types |-> <<>>],
      [mnemonic |-> "ThrowSuperAlreadyCalledIfNotHole", operand_types |-> <<>>],
      [mnemonic |-> "RestoreGeneratorState", operand_types |-> <<"kReg">>],
      [mnemonic |-> "SuspendGenerator", operand_types |-> <<"kReg", "kRegRange", "kUImm">>],
      [mnemonic |-> "RestoreGeneratorRegisters", operand_types |-> <<"kReg", "kRegRange">>],
      [mnemonic |-> "Debugger", operand_types |-> <<>>],
      [mnemonic |-> "DebugBreak0", operand_types |-> <<>>],
      [mnemonic |-> "DebugBreak1", operand_types |-> <<"kReg">>],
      [mnemonic |-> "DebugBreak2", operand_types |-> <<"kReg", "kReg">>],
      [mnemonic |-> "DebugBreak3", operand_types |-> <<"kReg", "kReg", "kReg">>],
      [mnemonic |-> "DebugBreak4", operand_types |-> <<"kReg", "kReg", "kReg", "kReg">>],
      [mnemonic |-> "DebugBreak5", operand_types |-> <<"kRuntimeId", "kReg", "kReg">>],
      [mnemonic |-> "DebugBreak6", operand_types |-> <<"kRuntimeId", "kReg", "kReg", "kReg">>],
      [mnemonic |-> "DebugBreakWide", operand_types |-> <<>>],
      [mnemonic |-> "DebugBreakExtraWide", operand_types |-> <<>>],
      [mnemonic |-> "IncBlockCounter", operand_types |-> <<"kIdx">>],
      [mnemonic |-> "Illegal", operand_types |-> <<>>],
      [mnemonic |-> "Nop", operand_types |-> <<>>]
    >>

\* OPCODES: opcode -> (mnemonic, [operand_types])
OPCODES == [opcode \in 0 .. (Len(OpcodeRows) - 1) |-> OpcodeRows[opcode + 1]]

FORWARD_JUMPS ==
    {"Jump", "JumpIfToBooleanTrue", "JumpIfToBooleanFalse", "JumpIfTrue",
     "JumpIfFalse", "JumpIfNull", "JumpIfNotNull", "JumpIfUndefined",
     "JumpIfNotUndefined", "JumpIfJSReceiver"}

BACKWARD_JUMPS == {"JumpLoop"}

TYPEOF_LITERALS ==
    <<<<"n", "u", "m", "b", "e", "r">>,
      <<"s", "t", "r", "i", "n", "g">>,
      <<"s", "y", "m", "b", "o", "l">>,
      <<"b", "o", "o", "l", "e", "a", "n">>,
      <<"u", "n", "d", "e", "f", "i", "n", "e", "d">>,
      <<"f", "u", "n", "c", "t", "i", "o", "n">>,
      <<"o", "b", "j", "e", "c", "t">>,
      <<"o", "t", "h", "e", "r">>>>

\* "%d" % n
SignedDec(n) == IF n < 0 THEN <<"-">> \o Dec(0 - n) ELSE Dec(n)

\* "%04X" % n
Hex04(n) == IF n < 0 THEN <<"-">> \o ZFill(Hex(0 - n), 3) ELSE ZFill(Hex(n), 4)

\* bytecode[from:to]
Slice(bytecode, from, to) ==
    SubSeq(bytecode, from + 1, IF to > Len(bytecode) THEN Len(bytecode) ELSE to)

(***************************************************************************)
(* The value of an operand is a Python int below 2^32: the pair <<hi, lo>> *)
(* of its halves of 16 bits.                                               *)
(***************************************************************************)
Small(val) == val[1] < 32768

\* the value as a number, for a value below 2^31
Number(val) == val[1] * 65536 + val[2]

\* val + n and val - n for a small n >= 0 (val >= n)
Plus(val, n) == <<val[1] + ((val[2] + n) \div 65536), (val[2] + n) % 65536>>

Minus(val, n) == IF val[2] >= n THEN <<val[1], val[2] - n>> ELSE <<val[1] - 1, val[2] + 65536 - n>>

RECURSIVE DecOf(_)
\* "%d" % val
DecOf(val) ==
    IF Small(val) THEN Dec(Number(val))
    ELSE LET t == (val[1] % 10) * 65536 + val[2]
         IN  DecOf(<<val[1] \div 10 + (t \div 10) \div 65536, (t \div 10) % 65536>>)
                 \o <<Digits[(t % 10) + 1]>>

\* "%04X" % val
HexOf(val) == IF val[1] = 0 THEN ZFill(Hex(val[2]), 4) ELSE Hex(val[1]) \o ZFill(Hex(val[2]), 4)

RECURSIVE unpack_from(_, _, _)
\* struct.unpack_from of a little-endian unsigned number of n bytes, n <= 2,
\* at offset at
unpack_from(bytecode, at, n) ==
    IF n = 0 THEN 0 ELSE bytecode[at + 1] + 256 * unpack_from(bytecode, at + 1, n - 1)

\* struct.unpack_from of "<H" (n = 2) and "<I" (n = 4), and the byte at at
\* (n = 1)
unpack(bytecode, at, n) ==
    IF n = 4 THEN <<unpack_from(bytecode, at + 2, 2), unpack_from(bytecode, at, 2)>>
    ELSE <<0, unpack_from(bytecode, at, n)>>

\* a register operand that a prefix does not widen
ReadRegister_OneByte(bytecode, at, operand_size) ==
    [val |-> IF at + 1 <= Len(bytecode) THEN unpack(bytecode, at, 1) ELSE <<0, 0>>,
     pos |-> at + 1]

\* a register operand: its value, 0 when the buffer ends before it, and the
\* cursor moved past it all the same
ReadRegister(bytecode, at, operand_size) ==
    [val |-> IF at + operand_size <= Len(bytecode)
             THEN unpack(bytecode, at, operand_size) ELSE <<0, 0>>,
     pos |-> at + operand_size]

\* a standard operand: its value, or 0 and the cursor at the end when the
\* buffer ends before it
ReadStandard(bytecode, at, operand_size) ==
    IF at + operand_size > Len(bytecode)
    THEN [val |-> <<0, 0>>, pos |-> Len(bytecode)]
    ELSE [val |-> unpack(bytecode, at, operand_size), pos |-> at + operand_size]

\* the text of a kImm operand, sign-extended when it is 1 or 2 bytes wide
SignExtend(val, operand_size) ==
    IF operand_size = 1 /\ Number(val) > 127 THEN <<"-">> \o Dec(256 - Number(val))
    ELSE IF operand_size = 2 /\ Number(val) > 32767 THEN <<"-">> \o Dec(65536 - Number(val))
    ELSE DecOf(val)

\* the kRuntimeId operand read as r
RuntimeIdOperand(op_type, r) ==
    [pos |-> r.pos, operand |-> <<op_type, r.val>>,
     str |-> <<"[">> \o DecOf(r.val) \o <<"]">>]

\* the kRegRange operand whose register was read as reg and whose count as
\* count
RegRangeOperand(op_type, reg, count) ==
    [pos |-> count.pos, operand |-> <<op_type, <<reg.val, count.val>>>>,
     str |-> _byte_to_register(reg.val[2] % 256) \o <<"-">>
               \o _byte_to_register(IF count.val # <<0, 0>>
                                    THEN (reg.val[2] + count.val[2] + 255) % 256
                                    ELSE reg.val[2] % 256)
               \o <<"(">> \o DecOf(count.val) \o <<")">>]

\* the kRegRange operand whose register was read as reg
RegRange(bytecode, op_type, reg, operand_size) ==
    RegRangeOperand(op_type, reg, ReadRegister(bytecode, reg.pos, operand_size))

\* the kRegPair or kRegTriple operand read as reg
RegListOperand(op_type, reg, suffix) ==
    [pos |-> reg.pos, operand |-> <<op_type, reg.val>>,
     str |-> _byte_to_register(reg.val[2] % 256) \o suffix]

\* the operand of any other type read as r
StandardOperand(op_type, r, operand_size) ==
    [pos |-> r.pos, operand |-> <<op_type, r.val>>,
     str |-> IF op_type = "kReg" THEN _byte_to_register(r.val[2] % 256)
             ELSE IF op_type = "kImm"
             THEN <<"[">> \o SignExtend(r.val, operand_size) \o <<"]">>
             ELSE (IF op_type = "kFlag8" THEN <<"#">> ELSE <<"[">>) \o DecOf(r.val)
                      \o (IF op_type = "kFlag8" THEN <<>> ELSE <<"]">>)]

\* one operand of type op_type read at the cursor: the cursor after it, the
\* (op_type, val) pair and the operand's text
ReadOperand(bytecode, op_type, at, operand_size) ==
    IF op_type = "kRuntimeId"
    THEN RuntimeIdOperand(op_type, ReadStandard(bytecode, at, 2))
    ELSE IF op_type = "kRegRange"
    THEN RegRange(bytecode, op_type, ReadRegister(bytecode, at, operand_size), operand_size)
    ELSE IF op_type \in {"kRegPair", "kRegTriple"}
    THEN RegListOperand(op_type, ReadRegister(bytecode, at, operand_size),
                        IF op_type = "kRegPair" THEN <<"(", "p", "a", "i", "r", ")">> ELSE <<"(", "t", "r", "i", "p", "l", "e", ")">>)
    ELSE StandardOperand(op_type, ReadStandard(bytecode, at, operand_size), operand_size)

\* the operands read, with the operand one before them
Prepend(one, more) ==
    [pos |-> more.pos, operands |-> <<one.operand>> \o more.operands,
     operand_strs |-> <<one.str>> \o more.operand_strs]

RECURSIVE ReadOperands(_, _, _, _)
RECURSIVE ReadOperandsAfter(_, _, _, _)
\* the loop over operand_types: the cursor after the operands, the operands
\* and their texts
ReadOperands(bytecode, operand_types, at, operand_size) ==
    IF operand_types = <<>> THEN [pos |-> at, operands |-> <<>>, operand_strs |-> <<>>]
    ELSE ReadOperandsAfter(bytecode, operand_types,
                           ReadOperand(bytecode, Head(operand_types), at, operand_size),
                           operand_size)

\* the loop over operand_types, its first operand read as one
ReadOperandsAfter(bytecode, operand_types, one, operand_size) ==
    Prepend(one, ReadOperands(bytecode, Tail(operand_types), one.pos, operand_size))

RECURSIVE Join(_, _)
\* sep.join(texts)
Join(sep, texts) ==
    IF texts = <<>> THEN <<>>
    ELSE IF Len(texts) = 1 THEN texts[1]
    ELSE texts[1] \o sep \o Join(sep, Tail(texts))

\* the first operand of type op_type that passes the test, or None
FirstOperand(operands, op_type, Test(_)) ==
    LET hits == {i \in DOMAIN operands : operands[i][1] = op_type /\ Test(operands[i][2])}
    IN  IF hits = {} THEN None
        ELSE <<operands[CHOOSE i \in hits : \A j \in hits : i <= j][2]>>

Always(val) == TRUE

\* the comment of a jump: its target
JumpComment(base_mnemonic, operands, inst_start) ==
    LET val == FirstOperand(operands, "kUImm", Always)
    IN  IF base_mnemonic \in FORWARD_JUMPS /\ val # None
        THEN <<"-", ">", " ", "@">> \o HexOf(Plus(val[1], inst_start))
        ELSE IF base_mnemonic \in BACKWARD_JUMPS /\ val # None
        THEN <<"-", ">", " ", "@">> \o (IF Small(val[1]) THEN Hex04(inst_start - Number(val[1]))
                          ELSE <<"-">> \o HexOf(Minus(val[1], inst_start)))
        ELSE <<>>

\* cp_val[:60]
First60(s) == SubSeq(s, 1, IF Len(s) > 60 THEN 60 ELSE Len(s))

\* what is added to the comment for the constant the instruction names
ConstantComment(operands, constant_pool) ==
    IF constant_pool = None THEN <<>>
    ELSE LET items == constant_pool[1]
             InPool(val) == Small(val) /\ Number(val) < Len(items)
             idx == FirstOperand(operands, "kIdx", InPool)
         IN  IF idx = None THEN <<>>
             ELSE LET cp_val == items[Number(idx[1]) + 1]
                  IN  IF cp_val.type = "str"
                      THEN <<" ", ";", " ", "\"">> \o First60(cp_val.value) \o <<"\"">>
                      ELSE IF cp_val.type = "int"
                      THEN <<" ", ";", " ">> \o SignedDec(cp_val.value)
                      ELSE IF "name" \in DOMAIN cp_val
                      THEN <<" ", ";", " ">> \o cp_val.name
                      ELSE <<>>

\* the comment of TestTypeOf, or None
TypeOfComment(base_mnemonic, operands) ==
    LET Literal(val) == Small(val) /\ Number(val) < Len(TYPEOF_LITERALS)
        flag == FirstOperand(operands, "kFlag8", Literal)
    IN  IF base_mnemonic = "TestTypeOf" /\ flag # None
        THEN <<<<";", " ">> \o TYPEOF_LITERALS[Number(flag[1]) + 1]>>
        ELSE None

\* what one pass of the loop of disassemble_bytecode does: the cursor after
\* it, the instruction it appended if any, and whether it left the loop
Pass(at, emitted, stop) == [pos |-> at, emitted |-> emitted, stop |-> stop]

\* the branch of an opcode that is not in OPCODES, with one operand byte
\* taken after the opcode
UnknownOpcode_SkipsOperand(bytecode, inst_start, opcode, at) ==
    Pass(at + 1,
         <<[offset |-> inst_start, mnemonic |-> <<"UNKNOWN">>,
            operands |-> <<"0", "x">> \o Hex02(opcode),
            raw_bytes |-> Slice(bytecode, inst_start, at + 1), comment |-> <<>>]>>,
         FALSE)

\* the branch of an opcode that is not in OPCODES
UnknownOpcode(bytecode, inst_start, opcode, at) ==
    Pass(at,
         <<[offset |-> inst_start, mnemonic |-> <<"UNKNOWN">>,
            operands |-> <<"0", "x">> \o Hex02(opcode),
            raw_bytes |-> Slice(bytecode, inst_start, at), comment |-> <<>>]>>,
         FALSE)

\* the comment of an instruction with these operands
CommentOf(base_mnemonic, operands, constant_pool, inst_start, typeof) ==
    IF typeof # None THEN typeof[1]
    ELSE JumpComment(base_mnemonic, operands, inst_start)
             \o ConstantComment(operands, constant_pool)

\* the instruction appended for an opcode of the table whose operands were
\* read as read
DecodedInstruction(bytecode, constant_pool, inst_start, mnemonic, read) ==
    Pass(read.pos,
         <<[offset |-> inst_start, mnemonic |-> mnemonic,
            operands |-> Join(<<" ">>, read.operand_strs),
            raw_bytes |-> Slice(bytecode, inst_start, read.pos),
            comment |-> CommentOf(mnemonic[Len(mnemonic)], read.operands, constant_pool,
                                  inst_start,
                                  TypeOfComment(mnemonic[Len(mnemonic)], read.operands))]>>,
         FALSE)

\* the instruction of an opcode of the table, at the cursor after the opcode
KnownOpcode(bytecode, constant_pool, inst_start, prefix_name, operand_size, opcode, at) ==
    DecodedInstruction(bytecode, constant_pool, inst_start,
            IF prefix_name = None THEN <<OPCODES[opcode].mnemonic>>
            ELSE <<prefix_name[1], ".", OPCODES[opcode].mnemonic>>,
            ReadOperands(bytecode, OPCODES[opcode].operand_types, at, operand_size))

\* one pass of the while loop of disassemble_bytecode, from the cursor at
LoopPass(bytecode, constant_pool, at) ==
    LET first == bytecode[at + 1]
        prefix_name == IF first = 0 THEN <<"Wide">>
                       ELSE IF first = 1 THEN <<"ExtraWide">> ELSE None
        operand_size == IF first = 0 THEN 2 ELSE IF first = 1 THEN 4 ELSE 1
    IN  IF prefix_name # None /\ at + 1 >= Len(bytecode) THEN Pass(at + 1, <<>>, TRUE)
        ELSE LET opcode == IF prefix_name = None THEN first ELSE bytecode[at + 2]
                 after == IF prefix_name = None THEN at + 1 ELSE at + 2
             IN  IF opcode \notin DOMAIN OPCODES
                 THEN UnknownOpcode(bytecode, at, opcode, after)
                 ELSE KnownOpcode(bytecode, constant_pool, at, prefix_name, operand_size,
                                  opcode, after)

RECURSIVE disassemble_from(_, _, _)
RECURSIVE disassemble_after(_, _, _)
\* the instructions appended from the cursor at on
disassemble_from(bytecode, constant_pool, at) ==
    IF at >= Len(bytecode) THEN <<>>
    ELSE disassemble_after(bytecode, constant_pool, LoopPass(bytecode, constant_pool, at))

\* the instructions appended from a pass of the loop on
disassemble_after(bytecode, constant_pool, pass) ==
    IF pass.stop THEN pass.emitted
    ELSE pass.emitted \o disassemble_from(bytecode, constant_pool, pass.pos)

\* disassemble_bytecode
disassemble_bytecode(bytecode, constant_pool) == disassemble_from(bytecode, constant_pool, 0)

(***************************************************************************)
(* Object conversion (v6/object_converter.py) and the name of a            *)
(* SharedFunctionInfo (v6/structs.py).  A heap value is a Value; a Python  *)
(* value that a conversion returns is a record with its type.              *)
(***************************************************************************)
\* the printable ASCII characters, space first (the grave accent by its name)
Ascii ==
    <<
      " ", "!", "\"", "#", "$", "%", "&", "'", "(", ")", "*", "+", ",", "-", ".", "/",
      "0", "1", "2", "3", "4", "5", "6", "7", "8", "9", ":", ";", "<", "=", ">", "?",
      "@", "A", "B", "C", "D", "E", "F", "G", "H", "I", "J", "K", "L", "M", "N", "O",
      "P", "Q", "R", "S", "T", "U", "V", "W", "X", "Y", "Z", "[", "\\", "]", "^", "_",
      "<grave>", "a", "b", "c", "d", "e", "f", "g", "h", "i", "j", "k", "l", "m", "n", "o",
      "p", "q", "r", "s", "t", "u", "v", "w", "x", "y", "z", "{", "|", "}", "~"
    >>

\* the character of a byte that is printable ASCII; any other byte or code
\* unit is shown as one mark
Chr(b) == IF b >= 32 /\ b <= 126 THEN Ascii[b - 31] ELSE "<?>"

\* the byte of a printable ASCII character
Ord(c) == 31 + CHOOSE i \in DOMAIN Ascii : Ascii[i] = c

\* raw.decode("utf-8", errors="replace") of ASCII bytes
DecodeUtf8(raw) == [i \in 1 .. Len(raw) |-> Chr(raw[i])]

\* raw.decode("utf-16-le", errors="replace") of code units below 128
DecodeUtf16(raw) ==
    [i \in 1 .. (Len(raw) \div 2) |->
        IF raw[2 * i] = 0 THEN Chr(raw[2 * i - 1]) ELSE "<?>"]

\* the names of the root objects of v8_roots.json, by index
RootNames ==
    <<<<"O", "n", "e", "B", "y", "t", "e", "I", "n", "t", "e", "r", "n", "a", "l", "i", "z", "e", "d", "S", "t", "r", "i", "n", "g">>,
      <<"O", "n", "e", "B", "y", "t", "e", "S", "t", "r", "i", "n", "g">>,
      <<"I", "n", "t", "e", "r", "n", "a", "l", "i", "z", "e", "d", "S", "t", "r", "i", "n", "g">>,
      <<"C", "o", "n", "s", "O", "n", "e", "B", "y", "t", "e", "S", "t", "r", "i", "n", "g">>,
      <<"F", "i", "x", "e", "d", "C", "O", "W", "A", "r", "r", "a", "y">>,
      <<"H", "e", "a", "p", "N", "u", "m", "b", "e", "r">>,
      <<"e", "m", "p", "t", "y", "_", "s", "t", "r", "i", "n", "g">>,
      <<"S", "h", "a", "r", "e", "d", "F", "u", "n", "c", "t", "i", "o", "n", "I", "n", "f", "o">>,
      <<"u", "n", "d", "e", "f", "i", "n", "e", "d", "_", "v", "a", "l", "u", "e">>,
      <<"F", "i", "x", "e", "d", "A", "r", "r", "a", "y">>,
      <<"B", "y", "t", "e", "c", "o", "d", "e", "A", "r", "r", "a", "y">>>>

\* RootObject.name
RootName(val) == RootNames[val.v + 1]

\* the root object of a name
Root(name) == Value("root", (CHOOSE i \in DOMAIN RootNames : RootNames[i] = name) - 1)

\* JscParser.attached
AttachedStrings == <<<<"S", "o", "u", "r", "c", "e">>>>

IsRootObject(val) == val.k = "root"

\* isinstance(obj, str): an attached string
IsStr(val) == val.k = "attached"

PyNone == [type |-> "NoneType"]

PyStr(text) == [type |-> "str", value |-> text]

PyList(items) == [type |-> "list", value |-> items]

PyFloat(x1, x2) == [type |-> "float", value |-> <<x1, x2>>]

\* bool(x) of a converted value
Truthy(x) ==
    IF x.type = "NoneType" THEN FALSE
    ELSE IF x.type = "float" THEN x.value # <<<<0, 0>>, <<0, 0>>>>
                                  /\ x.value # <<<<0, 0>>, <<\h8000, 0>>>>
    ELSE x.value # <<>>

\* reserv_object_to_bytes
reserv_object_to_bytes(o, len_dword_index, is_16le, pointer_size) ==
    LET length == ToInt(get_smi_int(o, len_dword_index * pointer_size))
                      * (IF is_16le THEN 2 ELSE 1)
    IN  [i \in 1 .. length |->
            LE32(get_int(o, (len_dword_index + 1) * pointer_size + ((i - 1) \div 4) * 4))
                [((i - 1) % 4) + 1]]

\* the name of the type of a ReservObject, or None when the object at offset
\* 0 is not a RootObject
TypeName(o) ==
    LET type_obj == get_aligned_object(o, 0)
    IN  IF IsRootObject(type_obj) THEN <<RootName(type_obj)>> ELSE None

OneByteTypes ==
    {<<"O", "n", "e", "B", "y", "t", "e", "I", "n", "t", "e", "r", "n", "a", "l", "i", "z", "e", "d", "S", "t", "r", "i", "n", "g">>,
     <<"O", "n", "e", "B", "y", "t", "e", "S", "t", "r", "i", "n", "g">>}

RECURSIVE convert_cons_one_byte_string(_, _)
RECURSIVE convert_reserv_object(_, _)

\* convert_cons_one_byte_string: a text
convert_cons_one_byte_string(val, pointer_size) ==
    IF val.k = "None" THEN <<>>
    ELSE IF IsStr(val) THEN AttachedStrings[val.v + 1]
    ELSE IF IsRootObject(val) THEN RootName(val)
    ELSE IF IsReservObject(val)
    THEN LET o == heap[val.v]
             type_name == TypeName(o)
         IN  IF type_name = None THEN <<>>
             ELSE IF type_name[1] \in OneByteTypes
             THEN convert_reserv_object(val, pointer_size).value
             ELSE IF type_name[1] = <<"C", "o", "n", "s", "O", "n", "e", "B", "y", "t", "e", "S", "t", "r", "i", "n", "g">>
             THEN convert_cons_one_byte_string(get_aligned_object(o, 3 * pointer_size),
                                               pointer_size)
                      \o convert_cons_one_byte_string(get_aligned_object(o, 4 * pointer_size),
                                                      pointer_size)
             ELSE <<>>
    ELSE <<>>

\* convert_reserv_object of the ReservObject val: a Python value
convert_reserv_object(val, pointer_size) ==
    LET o == heap[val.v]
        type_name == TypeName(o)
    IN  IF type_name = None THEN PyNone
        ELSE IF type_name[1] \in OneByteTypes
        THEN PyStr(DecodeUtf8(reserv_object_to_bytes(o, 2, FALSE, pointer_size)))
        ELSE IF type_name[1] = <<"I", "n", "t", "e", "r", "n", "a", "l", "i", "z", "e", "d", "S", "t", "r", "i", "n", "g">>
        THEN PyStr(DecodeUtf16(reserv_object_to_bytes(o, 2, TRUE, pointer_size)))
        ELSE IF type_name[1] = <<"C", "o", "n", "s", "O", "n", "e", "B", "y", "t", "e", "S", "t", "r", "i", "n", "g">>
        THEN PyStr(convert_cons_one_byte_string(val, pointer_size))
        ELSE IF type_name[1] = <<"F", "i", "x", "e", "d", "C", "O", "W", "A", "r", "r", "a", "y">>
        THEN PyList([i \in 1 .. ((o.size - pointer_size) \div 4) |->
                        get_int(o, pointer_size + (i - 1) * 4)])
        ELSE IF type_name[1] = <<"H", "e", "a", "p", "N", "u", "m", "b", "e", "r">>
        THEN PyFloat(get_int(o, pointer_size), get_int(o, pointer_size + 4))
        ELSE PyNone

RECURSIVE ReplaceAll(_, _, _)
\* s.replace(old, new) for a non-empty old
ReplaceAll(s, old, new) ==
    IF Len(s) < Len(old) THEN s
    ELSE IF SubSeq(s, 1, Len(old)) = old
    THEN new \o ReplaceAll(SubSeq(s, Len(old) + 1, Len(s)), old, new)
    ELSE <<s[1]>> \o ReplaceAll(Rest(s), old, new)

\* get_function_literal_id_offset and its copy in _extract_sfi_name
get_function_literal_id_offset(pointer_size) == 13 * pointer_size

\* "func_%04d" % obj.get_int(kFunctionLiteralIdOffset)
FallbackName(o, pointer_size) ==
    <<"f", "u", "n", "c", "_">> \o ZFill(Dec(ToInt(get_int(o, get_function_literal_id_offset(pointer_size)))), 4)

\* isinstance(name_obj, int) and name_obj == 0
IsZero(val) == IsInt(val) /\ \A i \in DOMAIN val.w : val.w[i] = 0

\* the name a SharedFunctionInfo object holds, before it is cleaned up: a
\* Python value, for the function object o
NameValue(o, pointer_size, zero_name) ==
    LET name_obj == get_aligned_object(o, pointer_size + pointer_size)
    IN  IF IsRootObject(name_obj) THEN PyStr(RootName(name_obj))
        ELSE IF IsReservObject(name_obj)
        THEN LET converted == convert_reserv_object(name_obj, pointer_size)
             IN  IF Truthy(converted) THEN converted ELSE PyStr(<<>>)
        ELSE IF IsStr(name_obj) THEN PyStr(AttachedStrings[name_obj.v + 1])
        ELSE IF IsZero(name_obj) THEN PyStr(zero_name)
        ELSE PyStr(<<>>)

AttributeError(of, attribute) ==
    Exception(<<"'%s' object has no attribute '%s'">>, <<of, attribute>>)

Named(name) == [raised |-> None, name |-> name]

NotNamed(exception) == [raised |-> <<exception>>, name |-> <<>>]

\* SharedFunctionInfo.__init__, the name: the name, or the exception raised
SharedFunctionInfo_name(o, pointer_size) ==
    LET name == NameValue(o, pointer_size, <<"e", "m", "p", "t", "y", "_", "s", "t", "r", "i", "n", "g">>)
    IN  IF name.type # "str" THEN NotNamed(AttributeError(name.type, "replace"))
        ELSE LET clean == ReplaceAll(ReplaceAll(name.value, <<" ">>, <<"_">>),
                                     <<"e", "m", "p", "t", "y", "_", "s", "t", "r", "i", "n", "g">>, <<>>)
             IN  Named(IF clean = <<>> THEN FallbackName(o, pointer_size) ELSE clean)

\* _extract_sfi_name: the name, or the exception raised
_extract_sfi_name(o, pointer_size) ==
    LET name == NameValue(o, pointer_size, <<>>)
    IN  IF name.type # "str" THEN NotNamed(AttributeError(name.type, "replace"))
        ELSE LET clean == ReplaceAll(name.value, <<"e", "m", "p", "t", "y", "_", "s", "t", "r", "i", "n", "g">>, <<>>)
             IN  Named(IF clean = <<>> THEN FallbackName(o, pointer_size) ELSE clean)

\* prepare_for_alloc of a SharedFunctionInfo object: the name of the
\* ConstantPoolRef
ClosureRefName(o, pointer_size) ==
    LET name == _extract_sfi_name(o, pointer_size)
    IN  IF name.raised = None
        THEN Named(<<"<", "c", "l", "o", "s", "u", "r", "e", ":", " ">> \o name.name \o <<">">>)
        ELSE name

(***************************************************************************)
(* Sample heaps for the conversions.                                       *)
(***************************************************************************)
\* the bytes of a text of printable ASCII, one or two per character
TextBytes(chars, two_byte) ==
    IF two_byte
    THEN [i \in 1 .. (2 * Len(chars)) |-> IF i % 2 = 1 THEN Ord(chars[(i + 1) \div 2]) ELSE 0]
    ELSE [i \in 1 .. Len(chars) |-> Ord(chars[i])]

\* bytes filled with zeros up to a multiple of 4
Padded(bytes) == bytes \o [i \in 1 .. ((4 - (Len(bytes) % 4)) % 4) |-> 0]

\* the object with val at address; None leaves the slot empty
Put(o, address, val) == IF val.k = "None" THEN o ELSE add_object(o, address, val)

\* the object with the smi n at address, as the deserializer stores raw words
PutSmi(o, address, n, ps) ==
    IF ps = 4 THEN add_object(o, address, IntValue(U32(2 * n)))
    ELSE add_object(add_object(o, address, IntValue(U32(0))), address + 4, IntValue(U32(n)))

\* a sequential string object: type, length, characters
StringObject(type_name, chars, two_byte, ps) ==
    LET bytes == Padded(TextBytes(chars, two_byte))
        typed == add_object(ReservObject(3 * ps + Len(bytes)), 0, Root(type_name))
        sized == PutSmi(typed, 2 * ps, Len(chars), ps)
    IN  IF bytes = <<>> THEN sized ELSE add_bytes(sized, 3 * ps, bytes)

\* a ConsOneByteString object: type, left child, right child
ConsObject(left, right, ps) ==
    Put(Put(add_object(ReservObject(5 * ps), 0, Root(<<"C", "o", "n", "s", "O", "n", "e", "B", "y", "t", "e", "S", "t", "r", "i", "n", "g">>)),
            3 * ps, left),
        4 * ps, right)

\* a FixedCOWArray object of the given words
ArrayObject(words, ps) ==
    LET typed == add_object(ReservObject(ps + 4 * Len(words)), 0, Root(<<"F", "i", "x", "e", "d", "C", "O", "W", "A", "r", "r", "a", "y">>))
    IN  IF words = <<>> THEN typed ELSE add_bytes(typed, ps, Concat([i \in DOMAIN words |-> LE32(U32(words[i]))]))

\* a SharedFunctionInfo object: type, name, function literal id
FunctionObject(name_obj, function_literal_id, ps) ==
    LET typed == add_object(ReservObject(13 * ps + 32), 0, Root(<<"S", "h", "a", "r", "e", "d", "F", "u", "n", "c", "t", "i", "o", "n", "I", "n", "f", "o">>))
        named == IF name_obj.k = "int" THEN PutSmi(typed, 2 * ps, 0, ps)
                 ELSE Put(typed, 2 * ps, name_obj)
    IN  add_object(named, 13 * ps, IntValue(U32(function_literal_id)))

Obj(id) == Value("obj", id)

PointerSizes == {4, 8}

\* the strings foo (one byte, internalized), bar (one byte), bar (two bytes,
\* internalized) and the cons string of the first two
StringHeap(ps) ==
    <<StringObject(<<"O", "n", "e", "B", "y", "t", "e", "I", "n", "t", "e", "r", "n", "a", "l", "i", "z", "e", "d", "S", "t", "r", "i", "n", "g">>, <<"f", "o", "o">>, FALSE, ps),
      StringObject(<<"O", "n", "e", "B", "y", "t", "e", "S", "t", "r", "i", "n", "g">>, <<"b", "a", "r">>, FALSE, ps),
      StringObject(<<"I", "n", "t", "e", "r", "n", "a", "l", "i", "z", "e", "d", "S", "t", "r", "i", "n", "g">>, <<"b", "a", "r">>, TRUE, ps),
      ConsObject(Obj(1), Obj(2), ps)>>

\* the children of a cons string: each string of StringHeap, two roots, an
\* attached string, nothing
Children ==
    {Obj(1), Obj(2), Obj(3), Obj(4), Root(<<"u", "n", "d", "e", "f", "i", "n", "e", "d", "_", "v", "a", "l", "u", "e">>), Root(<<"e", "m", "p", "t", "y", "_", "s", "t", "r", "i", "n", "g">>),
     Value("attached", 0), NoneValue}

ConsCalls ==
    {[fn |-> "convert_cons_one_byte_string", pointer_size |-> ps,
      heap |-> Append(StringHeap(ps), ConsObject(left, right, ps)), obj |-> Obj(5),
      left |-> left, right |-> right] :
        ps \in PointerSizes, left \in Children, right \in Children}

\* the source names of functions
NameTexts ==
    {<<"f">>,
     <<"a", ".", "b">>,
     <<"m", "y", " ", "f">>,
     <<"g", "e", "t", " ", "x", ".", "y">>,
     <<>>,
     <<"e", "m", "p", "t", "y", "_", "s", "t", "r", "i", "n", "g">>,
     <<"x", "e", "m", "p", "t", "y", "_", "s", "t", "r", "i", "n", "g", "y">>,
     <<"e", "m", "p", "t", "y", "_", " ", "s", "t", "r", "i", "n", "g">>}

\* a heap with a function: the name's string object, a cons string twice that
\* name, an array, and the function object with the given name slot
NameHeap(chars, name_obj, function_literal_id, ps) ==
    <<StringObject(<<"O", "n", "e", "B", "y", "t", "e", "I", "n", "t", "e", "r", "n", "a", "l", "i", "z", "e", "d", "S", "t", "r", "i", "n", "g">>, chars, FALSE, ps),
      ConsObject(Obj(1), Obj(1), ps),
      ArrayObject(<<function_literal_id>>, ps),
      FunctionObject(name_obj, function_literal_id, ps)>>

\* what the name slot of a function object holds
NameSlots ==
    {Obj(1), Obj(2), Obj(3), Root(<<"e", "m", "p", "t", "y", "_", "s", "t", "r", "i", "n", "g">>), Root(<<"u", "n", "d", "e", "f", "i", "n", "e", "d", "_", "v", "a", "l", "u", "e">>), Value("attached", 0),
     IntValue(<<0, 0>>), NoneValue}

NameCalls ==
    {[fn |-> f, pointer_size |-> ps, heap |-> NameHeap(chars, slot, id, ps), obj |-> Obj(4),
      chars |-> chars, slot |-> slot, function_literal_id |-> id] :
        f \in {"SharedFunctionInfo", "_extract_sfi_name"}, ps \in PointerSizes,
        chars \in NameTexts, slot \in NameSlots, id \in {0, 7, 12345}}

(***************************************************************************)
(* The functions of a heap: BytecodeData, ConstantPool and                 *)
(* SharedFunctionInfo (v6/structs.py), the conversion of the function      *)
(* objects (jsc_decompiler.py) and the JavaScript output                   *)
(* (output_formatter.py).                                                  *)
(***************************************************************************)
get_array_length_offset(pointer_size) == pointer_size

get_array_header_size(pointer_size) == get_array_length_offset(pointer_size) + pointer_size

\* ConstantPoolRef(type_name, name)
ConstantPoolRef(type_name, name) ==
    [type |-> "ConstantPoolRef", type_name |-> type_name,
     name |-> IF name = <<>> THEN type_name ELSE name]

\* an exception on its way out of a constructor
Raising(exception) == [type |-> "raised", exception |-> exception]

\* "FixedArray", "FixedCOWArray": the list converted, or a reference
ArrayOrRef(result) ==
    IF result # PyNone THEN result ELSE ConstantPoolRef(<<"F", "i", "x", "e", "d", "A", "r", "r", "a", "y">>, <<>>)

\* "SharedFunctionInfo": the reference to the closure of that name
ClosureRef(name) ==
    IF name.raised = None THEN ConstantPoolRef(<<"S", "h", "a", "r", "e", "d", "F", "u", "n", "c", "t", "i", "o", "n", "I", "n", "f", "o">>, name.name)
    ELSE Raising(name.raised[1])

\* prepare_for_alloc: a Python value; an integer is that of a 32-bit heap
prepare_for_alloc(cp_obj, pointer_size) ==
    IF IsInt(cp_obj) THEN [type |-> "int", value |-> ToInt(cp_obj.w)]
    ELSE IF IsRootObject(cp_obj) THEN [type |-> "RootObject", name |-> RootName(cp_obj)]
    ELSE IF IsReservObject(cp_obj)
    THEN LET type_name == TypeName(heap[cp_obj.v])
         IN  IF type_name = None THEN [type |-> "ReservObject"]
             ELSE IF type_name[1] \in OneByteTypes \cup {<<"I", "n", "t", "e", "r", "n", "a", "l", "i", "z", "e", "d", "S", "t", "r", "i", "n", "g">>}
             THEN convert_reserv_object(cp_obj, pointer_size)
             ELSE IF type_name[1] = <<"C", "o", "n", "s", "O", "n", "e", "B", "y", "t", "e", "S", "t", "r", "i", "n", "g">>
             THEN PyStr(convert_cons_one_byte_string(cp_obj, pointer_size))
             ELSE IF type_name[1] = <<"H", "e", "a", "p", "N", "u", "m", "b", "e", "r">>
             THEN PyFloat(get_int(heap[cp_obj.v], pointer_size), get_int(heap[cp_obj.v], pointer_size + 4))
             ELSE IF type_name[1] \in {<<"F", "i", "x", "e", "d", "A", "r", "r", "a", "y">>, <<"F", "i", "x", "e", "d", "C", "O", "W", "A", "r", "r", "a", "y">>}
             THEN ArrayOrRef(convert_reserv_object(cp_obj, pointer_size))
             ELSE IF type_name[1] = <<"S", "h", "a", "r", "e", "d", "F", "u", "n", "c", "t", "i", "o", "n", "I", "n", "f", "o">>
             THEN ClosureRef(ClosureRefName(heap[cp_obj.v], pointer_size))
             ELSE ConstantPoolRef(type_name[1], <<>>)
    ELSE IF IsStr(cp_obj) THEN PyStr(AttachedStrings[cp_obj.v + 1])
    ELSE PyNone

\* the first exception among the values, or None
FirstRaised(items) ==
    LET raising == {i \in DOMAIN items : items[i].type = "raised"}
    IN  IF raising = {} THEN None
        ELSE <<items[CHOOSE i \in raising : \A j \in raising : i <= j].exception>>

\* ConstantPool.__init__: the items
ConstantPool(o, pointer_size) ==
    LET count == ToInt(get_smi_int(o, get_array_length_offset(pointer_size)))
    IN  [i \in 1 .. count |->
            prepare_for_alloc(get_aligned_object(o, get_array_header_size(pointer_size) + (i - 1) * pointer_size),
                              pointer_size)]

\* the fields of a BytecodeData with the length, the bytes read, the constant
\* pool object and its items, or the exception raised
BytecodeFields(length, bytecode, cp_obj, items) ==
    IF FirstRaised(items) # None THEN [raised |-> FirstRaised(items)]
    ELSE [raised |-> None,
          bytecode |-> SubSeq(bytecode, 1, IF length < Len(bytecode) THEN length ELSE Len(bytecode)),
          constant_pool |-> IF IsReservObject(cp_obj) THEN <<items>> ELSE None]

\* BytecodeData.__init__: the bytes and the constant pool, or the exception
\* raised
BytecodeData(o, pointer_size) ==
    LET kConstantPoolOffset == get_array_header_size(pointer_size)
        kHandlerTableOffset == kConstantPoolOffset + pointer_size
        kSourcePositionTableOffset == kHandlerTableOffset + pointer_size
        kFrameSizeOffset == kSourcePositionTableOffset + pointer_size
        kParameterSizeOffset == kFrameSizeOffset + 4
        kIncomingNewTargetOrGeneratorRegisterOffset == kParameterSizeOffset + 4
        kInterruptBudgetOffset == kIncomingNewTargetOrGeneratorRegisterOffset + 4
        kOSRNestingLevelOffset == kInterruptBudgetOffset + 4
        kBytecodeAgeOffset == kOSRNestingLevelOffset + 1
        kHeaderSize == kBytecodeAgeOffset + 1 + 2
        length == ToInt(get_smi_int(o, get_array_length_offset(pointer_size)))
        cp_obj == get_aligned_object(o, kConstantPoolOffset)
        tmp == get_int(o, kOSRNestingLevelOffset)
        remaining == length - 2
        dwords == IF remaining <= 0 THEN <<>>
                  ELSE [i \in 1 .. ((remaining + 3) \div 4) |-> LE32(get_int(o, kHeaderSize + 4 * (i - 1)))]
        bytecode == <<tmp[1] % 256, tmp[1] \div 256>> \o Concat(dwords)
    IN  BytecodeFields(length, bytecode, cp_obj,
                       IF IsReservObject(cp_obj) THEN ConstantPool(heap[cp_obj.v], pointer_size) ELSE <<>>)

\* the fields of a SharedFunctionInfo with the name, the bytecode object and
\* its BytecodeData, or the exception raised
FunctionFields(name, bc_obj, code) ==
    IF name.raised # None THEN [raised |-> name.raised]
    ELSE IF ~IsReservObject(bc_obj) THEN [raised |-> None, name |-> name.name, bytecode |-> None]
    ELSE IF code.raised # None THEN [raised |-> code.raised]
    ELSE [raised |-> None, name |-> name.name, bytecode |-> <<code>>]

\* SharedFunctionInfo.__init__ of a function object without scope objects: the
\* name and the bytecode, or the exception raised
SharedFunctionInfo(o, pointer_size) ==
    FunctionFields(SharedFunctionInfo_name(o, pointer_size),
                   get_aligned_object(o, 7 * pointer_size),
                   BytecodeData(heap[get_aligned_object(o, 7 * pointer_size).v], pointer_size))

(***************************************************************************)
(* reconstruct_js: the collection of the jump targets.                     *)
(***************************************************************************)
\* the index of the first occurrence of sub in s, or 0
Find(s, sub) ==
    LET at == {i \in 1 .. (Len(s) - Len(sub) + 1) : SubSeq(s, i, i + Len(sub) - 1) = sub}
    IN  IF at = {} THEN 0 ELSE CHOOSE i \in at : \A j \in at : i <= j

\* comment.split("-> @")[1][:4]
TargetText(comment) ==
    LET after == SubSeq(comment, Find(comment, <<"-", ">", " ", "@">>) + 4, Len(comment))
        next == Find(after, <<"-", ">", " ", "@">>)
        piece == IF next = 0 THEN after ELSE SubSeq(after, 1, next - 1)
    IN  SubSeq(piece, 1, IF Len(piece) > 4 THEN 4 ELSE Len(piece))

Base16Digits ==
    {"0", "1", "2", "3", "4", "5", "6", "7", "8", "9",
     "a", "b", "c", "d", "e", "f", "A", "B", "C", "D", "E", "F"}

\* s.strip() of printable ASCII
Strip(s) ==
    LET inked == {i \in DOMAIN s : s[i] # " "}
    IN  IF inked = {} THEN <<>>
        ELSE SubSeq(s, CHOOSE i \in inked : \A j \in inked : i <= j,
                       CHOOSE i \in inked : \A j \in inked : i >= j)

\* base-16 digits, single underscores between them
DigitsBase16(s) ==
    /\ s # <<>>
    /\ \A i \in DOMAIN s : s[i] \in Base16Digits \cup {"_"}
    /\ s[1] # "_" /\ s[Len(s)] # "_"
    /\ \A i \in 1 .. (Len(s) - 1) : ~(s[i] = "_" /\ s[i + 1] = "_")

\* whether int(s, 16) returns: blanks around, a sign, a 0x prefix, the digits
ParsesBase16(s) ==
    LET stripped == Strip(s)
        unsigned == IF stripped # <<>> /\ stripped[1] \in {"+", "-"} THEN Tail(stripped) ELSE stripped
        prefixed == Len(unsigned) >= 2 /\ unsigned[1] = "0" /\ unsigned[2] \in {"x", "X"}
        digits == SubSeq(unsigned, 3, Len(unsigned))
    IN  \/ DigitsBase16(unsigned)
        \/ /\ prefixed
           /\ DigitsBase16(IF digits # <<>> /\ digits[1] = "_" THEN Tail(digits) ELSE digits)

ValueError(text) == Exception(<<"invalid literal for int() with base 16: %r">>, <<text>>)

\* the scan of the instructions for jump targets: the exception of the first
\* comment whose target int(..., 16) rejects, or None
JumpTargets(disassembled) ==
    LET wrong == {i \in DOMAIN disassembled :
                     /\ Find(disassembled[i].comment, <<"-", ">", " ", "@">>) # 0
                     /\ ~ParsesBase16(TargetText(disassembled[i].comment))}
    IN  IF wrong = {} THEN None
        ELSE <<ValueError(TargetText(disassembled[CHOOSE i \in wrong : \A j \in wrong : i <= j].comment))>>

\* reconstruct_js up to the jump targets: the exception raised, or None
reconstruct_js_raised(sfi) ==
    IF sfi.bytecode = None THEN None
    ELSE JumpTargets(disassemble_bytecode(sfi.bytecode[1].bytecode, sfi.bytecode[1].constant_pool))

(***************************************************************************)
(* Sample heaps with functions.                                            *)
(***************************************************************************)
\* a BytecodeArray object: type, length, constant pool, the bytes
BytecodeObject(bytes, pool, ps) ==
    LET rest == Padded(SubSeq(bytes, 3, Len(bytes)))
        typed == add_object(ReservObject(5 * ps + 20 + Len(rest)), 0, Root(<<"B", "y", "t", "e", "c", "o", "d", "e", "A", "r", "r", "a", "y">>))
        sized == PutSmi(typed, ps, Len(bytes), ps)
        pooled == Put(sized, 2 * ps, pool)
        first == add_object(pooled, 5 * ps + 16, IntValue(<<bytes[1] + 256 * bytes[2], 0>>))
    IN  IF rest = <<>> THEN first ELSE add_bytes(first, 5 * ps + 20, rest)

\* a FixedArray object: type, length, the items
RECURSIVE PutAll(_, _, _, _)
PutAll(o, address, items, ps) ==
    IF items = <<>> THEN o ELSE PutAll(Put(o, address, Head(items)), address + ps, Tail(items), ps)

PoolObject(items, ps) ==
    PutAll(PutSmi(add_object(ReservObject(2 * ps + Len(items) * ps), 0, Root(<<"F", "i", "x", "e", "d", "A", "r", "r", "a", "y">>)), ps, Len(items), ps),
           2 * ps, items, ps)

\* a SharedFunctionInfo object with bytecode
FunctionWithCode(name_obj, bc_obj, function_literal_id, ps) ==
    Put(FunctionObject(name_obj, function_literal_id, ps), 7 * ps, bc_obj)

\* a heap of five functions: f (return 2), g (return "length"), h (returns
\* the text of a jump comment), one whose name is an array, and one without
\* a name and without bytecode
FunctionsHeap(ps) ==
    <<StringObject(<<"O", "n", "e", "B", "y", "t", "e", "I", "n", "t", "e", "r", "n", "a", "l", "i", "z", "e", "d", "S", "t", "r", "i", "n", "g">>, <<"f">>, FALSE, ps),
      StringObject(<<"O", "n", "e", "B", "y", "t", "e", "I", "n", "t", "e", "r", "n", "a", "l", "i", "z", "e", "d", "S", "t", "r", "i", "n", "g">>, <<"g">>, FALSE, ps),
      StringObject(<<"O", "n", "e", "B", "y", "t", "e", "I", "n", "t", "e", "r", "n", "a", "l", "i", "z", "e", "d", "S", "t", "r", "i", "n", "g">>, <<"h">>, FALSE, ps),
      ArrayObject(<<1>>, ps),
      StringObject(<<"O", "n", "e", "B", "y", "t", "e", "I", "n", "t", "e", "r", "n", "a", "l", "i", "z", "e", "d", "S", "t", "r", "i", "n", "g">>, <<"l", "e", "n", "g", "t", "h">>, FALSE, ps),
      StringObject(<<"O", "n", "e", "B", "y", "t", "e", "I", "n", "t", "e", "r", "n", "a", "l", "i", "z", "e", "d", "S", "t", "r", "i", "n", "g">>, <<"-", ">", " ", "@", "o", "o", "p", "s">>, FALSE, ps),
      PoolObject(<<Obj(5)>>, ps),
      PoolObject(<<Obj(6)>>, ps),
      BytecodeObject(<<\h03, \h02, \h95>>, NoneValue, ps),
      BytecodeObject(<<\h09, \h00, \h95>>, Obj(7), ps),
      BytecodeObject(<<\h09, \h00, \h95>>, Obj(8), ps),
      FunctionWithCode(Obj(1), Obj(9), 1, ps),
      FunctionWithCode(Obj(2), Obj(10), 2, ps),
      FunctionWithCode(Obj(3), Obj(11), 3, ps),
      FunctionWithCode(Obj(4), Obj(9), 4, ps),
      FunctionObject(Root(<<"e", "m", "p", "t", "y", "_", "s", "t", "r", "i", "n", "g">>), 5, ps)>>

FunctionObjects == {Obj(id) : id \in 12 .. 16}

MaxFunctions == 3

FunctionsCalls ==
    {[fn |-> "functions", pointer_size |-> ps, heap |-> FunctionsHeap(ps), func_objects |-> objs] :
        ps \in PointerSizes,
        objs \in UNION {[1 .. n -> FunctionObjects] : n \in 1 .. MaxFunctions}}

(***************************************************************************)
(* reconstruct_js on the instructions of a function: property access, and   *)
(* the programs and constant pools it is run on.                           *)
(***************************************************************************)
Letters ==
    {"a", "b", "c", "d", "e", "f", "g", "h", "i", "j", "k", "l", "m",
     "n", "o", "p", "q", "r", "s", "t", "u", "v", "w", "x", "y", "z",
     "A", "B", "C", "D", "E", "F", "G", "H", "I", "J", "K", "L", "M",
     "N", "O", "P", "Q", "R", "S", "T", "U", "V", "W", "X", "Y", "Z"}

\* _is_valid_identifier, for ASCII
_is_valid_identifier(s) ==
    /\ s # <<>>
    /\ s[1] \in Letters \cup {"_", "$"}
    /\ \A i \in DOMAIN s : s[i] \in Letters \cup {"_", "$"} \/ IsDigit(s[i])

\* s.startswith(prefix)
StartsWith(s, prefix) == Len(s) >= Len(prefix) /\ SubSeq(s, 1, Len(prefix)) = prefix

\* s.strip('"')
StripQuotes(s) ==
    LET kept == {i \in DOMAIN s : s[i] # "\""}
    IN  IF kept = {} THEN <<>>
        ELSE SubSeq(s, CHOOSE i \in kept : \A j \in kept : i <= j,
                       CHOOSE i \in kept : \A j \in kept : i >= j)

\* '"%s"' % text.replace('"', '\\"')
Quoted(text) == <<"\"">> \o ReplaceAll(text, <<"\"">>, <<"\\", "\"">>) \o <<"\"">>

\* _cp_value_str, for items that are strings, integers, roots, references
\* and lists
_cp_value_str(idx, constant_pool) ==
    IF constant_pool = None \/ idx >= Len(constant_pool[1]) THEN <<"c", "p", "[">> \o Dec(idx) \o <<"]">>
    ELSE LET item == constant_pool[1][idx + 1]
         IN  IF item.type = "str"
             THEN IF StartsWith(item.value, <<"H", "e", "a", "p", "N", "u", "m", "b", "e", "r", ":">>)
                  THEN SubSeq(item.value, Len(<<"H", "e", "a", "p", "N", "u", "m", "b", "e", "r", ":">>) + 1, Len(item.value))
                  ELSE IF StartsWith(item.value, <<"A", "r", "r", "a", "y", "B", "o", "i", "l", "e", "r", "p", "l", "a", "t", "e", ":">>)
                  THEN SubSeq(item.value, Len(<<"A", "r", "r", "a", "y", "B", "o", "i", "l", "e", "r", "p", "l", "a", "t", "e", ":">>) + 1, Len(item.value))
                  ELSE IF StartsWith(item.value, <<"O", "b", "j", "B", "o", "i", "l", "e", "r", "p", "l", "a", "t", "e", ":">>)
                  THEN SubSeq(item.value, Len(<<"O", "b", "j", "B", "o", "i", "l", "e", "r", "p", "l", "a", "t", "e", ":">>) + 1, Len(item.value))
                  ELSE Quoted(item.value)
             ELSE IF item.type = "int" THEN SignedDec(item.value)
             ELSE IF item.type = "RootObject"
             THEN IF item.name = <<"e", "m", "p", "t", "y", "_", "s", "t", "r", "i", "n", "g">> THEN <<"\"", "\"">>
                  ELSE IF item.root_type = "str" THEN Quoted(item.name)
                  ELSE item.name
             ELSE IF "name" \in DOMAIN item THEN item.name
             ELSE <<"c", "p", "[">> \o Dec(idx) \o <<"]">>

LdaNamedProperty ==
    \E pair \in Drawn("LdaNamedProperty", {}) :
        LET reg == _byte_to_register(pair[1])
            idx == pair[2]
            prop == StripQuotes(_cp_value_str(idx, cp))
            obj_name == get_reg(reg)
        IN  /\ Step
            /\ acc' = IF _is_valid_identifier(prop) THEN obj_name \o <<".">> \o prop
                      ELSE obj_name \o <<"[", "\"">> \o prop \o <<"\"", "]">>
            /\ acc_prec' = _P_ATOM
            /\ val_acc' = Atom(acc')
            /\ UNCHANGED <<regs, lines, val_regs>>

_P_EQ == 9

_P_REL == 10

\* the handler of a binary operator with an immediate operand
SmiOperator(base, op_str, op_prec) ==
    \E imm \in Drawn(base, {}) :
        /\ Step
        /\ acc' = BinText(_wrap_left(acc, acc_prec, op_prec), op_str, Dec(imm))
        /\ acc_prec' = op_prec
        /\ val_acc' = BinValue(base, val_acc, Atom(Dec(imm)))
        /\ UNCHANGED <<regs, lines, val_regs>>

SubSmi == SmiOperator("SubSmi", <<"-">>, _P_ADD)

DivSmi == SmiOperator("DivSmi", <<"/">>, _P_MUL)

ModSmi == SmiOperator("ModSmi", <<"%">>, _P_MUL)

BitwiseOrSmi == SmiOperator("BitwiseOrSmi", <<"|">>, _P_OR)

BitwiseXorSmi == SmiOperator("BitwiseXorSmi", <<"^">>, _P_XOR)

BitwiseAndSmi == SmiOperator("BitwiseAndSmi", <<"&">>, _P_AND)

ShiftLeftSmi == SmiOperator("ShiftLeftSmi", <<"<", "<">>, _P_SHIFT)

ShiftRightSmi == SmiOperator("ShiftRightSmi", <<">", ">">>, _P_SHIFT)

ShiftRightLogicalSmi == SmiOperator("ShiftRightLogicalSmi", <<">", ">", ">">>, _P_SHIFT)

\* the handler of a comparison of a register with the accumulator
TestOperator(base, op_str, op_prec) ==
    \E v \in Drawn(base, {}) :
        /\ Step
        /\ acc' = BinText(get_reg(_byte_to_register(v)), op_str, acc)
        /\ acc_prec' = op_prec
        /\ val_acc' = BinValue(base, val_regs[v], val_acc)
        /\ UNCHANGED <<regs, lines, val_regs>>

TestEqual == TestOperator("TestEqual", <<"=", "=">>, _P_EQ)

TestEqualStrict ==
    \E base \in {"TestEqualStrict", "TestEqualStrictNoFeedback"} :
        TestOperator(base, <<"=", "=", "=">>, _P_EQ)

TestLessThan == TestOperator("TestLessThan", <<"<">>, _P_REL)

TestGreaterThan == TestOperator("TestGreaterThan", <<">">>, _P_REL)

TestLessThanOrEqual == TestOperator("TestLessThanOrEqual", <<"<", "=">>, _P_REL)

TestGreaterThanOrEqual == TestOperator("TestGreaterThanOrEqual", <<">", "=">>, _P_REL)

TestInstanceOf == TestOperator("TestInstanceOf", <<"i", "n", "s", "t", "a", "n", "c", "e", "o", "f">>, _P_REL)

TestIn == TestOperator("TestIn", <<"i", "n">>, _P_REL)

\* the handler of a comparison of the accumulator with a literal
TestLiteral(base, op_str, literal) ==
    \E none \in Drawn(base, {}) :
        /\ Step
        /\ acc' = BinText(acc, op_str, literal)
        /\ acc_prec' = _P_EQ
        /\ val_acc' = BinValue(base, val_acc, Atom(literal))
        /\ UNCHANGED <<regs, lines, val_regs>>

TestUndetectable == TestLiteral("TestUndetectable", <<"=", "=">>, <<"n", "u", "l", "l">>)

TestNull == TestLiteral("TestNull", <<"=", "=", "=">>, <<"n", "u", "l", "l">>)

TestUndefined == TestLiteral("TestUndefined", <<"=", "=", "=">>, <<"u", "n", "d", "e", "f", "i", "n", "e", "d">>)

(***************************************************************************)
(* Handlers that read the text of the operands, as the disassembler wrote   *)
(* it: an instruction here carries the bytes of its operands.              *)
(***************************************************************************)
\* the operand types of the opcode with this mnemonic
OperandTypes(base) == OPCODES[CHOOSE opcode \in DOMAIN OPCODES : OPCODES[opcode].mnemonic = base].operand_types

\* operands_str of the instruction of mnemonic base whose operand bytes are ops
operands_str(base, ops) == Join(<<" ">>, ReadOperands(ops, OperandTypes(base), 0, 1).operand_strs)

\* the end of the first part of s, for s that does not start with a space
PartEnd(s) ==
    IF \E i \in DOMAIN s : s[i] = " "
    THEN (CHOOSE i \in DOMAIN s : s[i] = " " /\ \A j \in 1 .. (i - 1) : s[j] # " ") - 1
    ELSE Len(s)

RECURSIVE Split(_)
\* s.split()
Split(s) ==
    IF s = <<>> THEN <<>>
    ELSE IF s[1] = " " THEN Split(Tail(s))
    ELSE <<SubSeq(s, 1, PartEnd(s))>> \o Split(SubSeq(s, PartEnd(s) + 1, Len(s)))

RECURSIVE RStripCommas(_)
\* s.rstrip(",")
RStripCommas(s) ==
    IF s # <<>> /\ s[Len(s)] = "," THEN RStripCommas(SubSeq(s, 1, Len(s) - 1)) ELSE s

\* parts[i] if len(parts) > i else otherwise
Part(parts, i, otherwise) == IF Len(parts) > i THEN parts[i + 1] ELSE otherwise

\* the number of digits s has from position from on
DigitsFrom(s, from) ==
    IF \E i \in from .. Len(s) : ~IsDigit(s[i])
    THEN (CHOOSE i \in from .. Len(s) : ~IsDigit(s[i]) /\ \A j \in from .. (i - 1) : IsDigit(s[j])) - from
    ELSE Len(s) - from + 1

\* re.match(r'[ar]\d+-([ar])(\d+)$', s): the number in group 2, or None
DashFormat(s) ==
    IF /\ Len(s) >= 2 /\ s[1] \in {"a", "r"} /\ DigitsFrom(s, 2) > 0
       /\ Len(s) >= DigitsFrom(s, 2) + 4
       /\ s[DigitsFrom(s, 2) + 2] = "-"
       /\ s[DigitsFrom(s, 2) + 3] \in {"a", "r"}
       /\ isdigit(SubSeq(s, DigitsFrom(s, 2) + 4, Len(s)))
    THEN <<ParseInt(SubSeq(s, DigitsFrom(s, 2) + 4, Len(s)))>>
    ELSE None

\* r'\((\d+)\)' matches s at position i
CountAt(s, i) ==
    /\ s[i] = "(" /\ DigitsFrom(s, i + 1) > 0
    /\ i + DigitsFrom(s, i + 1) + 1 <= Len(s)
    /\ s[i + DigitsFrom(s, i + 1) + 1] = ")"

\* where re.search(r'\((\d+)\)', s) matches
FirstCount(s) ==
    CHOOSE i \in DOMAIN s : CountAt(s, i) /\ \A j \in 1 .. (i - 1) : ~CountAt(s, j)

\* re.search(r'\((\d+)\)', s): the number in group 1 of the first match, or
\* None
CountFormat(s) ==
    IF \E i \in DOMAIN s : CountAt(s, i)
    THEN <<ParseInt(SubSeq(s, FirstCount(s) + 1, FirstCount(s) + DigitsFrom(s, FirstCount(s) + 1)))>>
    ELSE None

\* the values of count registers from prefix<start_idx> on
RangeValues(prefix, start_idx, count) ==
    [i \in 1 .. count |-> get_reg(<<prefix>> \o Dec(start_idx + i - 1))]

\* _parse_reg_range_args of a range that re.match(r'([ar])(\d+)') accepts
RangeFrom(s, prefix, start_idx) ==
    IF DashFormat(s) # None
    THEN RangeValues(prefix, start_idx, DashFormat(s)[1] - start_idx + 1)
    ELSE IF CountFormat(s) = None THEN RangeValues(prefix, start_idx, 1)
    ELSE RangeValues(prefix, start_idx, CountFormat(s)[1])

\* _parse_reg_range_args that takes every range for one register
_parse_reg_range_args_OneRegister(range_str) ==
    IF range_str = <<>> THEN <<>> ELSE RangeValues(range_str[1], 0, 1)

_parse_reg_range_args(range_str) ==
    IF ~(/\ Len(RStripCommas(range_str)) >= 2
         /\ RStripCommas(range_str)[1] \in {"a", "r"}
         /\ IsDigit(RStripCommas(range_str)[2]))
    THEN <<>>
    ELSE RangeFrom(RStripCommas(range_str), RStripCommas(range_str)[1],
                   ParseInt(SubSeq(RStripCommas(range_str), 2,
                                   DigitsFrom(RStripCommas(range_str), 2) + 1)))

\* ", ".join(texts)
CommaJoin(texts) == Join(<<",", " ">>, texts)

_CALL_OPCODES ==
    {"CallProperty0", "CallProperty1", "CallProperty2", "CallProperty", "CallAnyReceiver",
     "CallUndefinedReceiver0", "CallUndefinedReceiver1", "CallUndefinedReceiver2",
     "CallUndefinedReceiver", "CallWithSpread", "CallRuntime", "CallJSRuntime",
     "InvokeIntrinsic", "Construct", "ConstructWithSpread"}

\* the mnemonics of the disassembler for which startswith("JumpIf") holds
JumpIfNames ==
    {"JumpIfFalse", "JumpIfFalseConstant", "JumpIfJSReceiver",
     "JumpIfJSReceiverConstant", "JumpIfNotNull", "JumpIfNotNullConstant",
     "JumpIfNotUndefined", "JumpIfNotUndefinedConstant", "JumpIfNull",
     "JumpIfNullConstant", "JumpIfToBooleanFalse", "JumpIfToBooleanFalseConstant",
     "JumpIfToBooleanTrue", "JumpIfToBooleanTrueConstant", "JumpIfTrue",
     "JumpIfTrueConstant", "JumpIfUndefined", "JumpIfUndefinedConstant"}

\* the mnemonics of the disassembler for which startswith("Sta") holds
StaNames ==
    {"StaContextSlot", "StaCurrentContextSlot", "StaDataPropertyInLiteral",
     "StaGlobalSloppy", "StaGlobalStrict", "StaKeyedPropertySloppy",
     "StaKeyedPropertyStrict", "StaLookupSlot", "StaModuleVariable",
     "StaNamedOwnProperty", "StaNamedPropertySloppy", "StaNamedPropertyStrict",
     "StackCheck", "Star"}

\* the mnemonics of the disassembler for which startswith("Test") holds
TestNames ==
    {"TestEqual", "TestEqualStrict", "TestEqualStrictNoFeedback", "TestGreaterThan",
     "TestGreaterThanOrEqual", "TestIn", "TestInstanceOf", "TestLessThan",
     "TestLessThanOrEqual", "TestNull", "TestTypeOf", "TestUndefined",
     "TestUndetectable"}

\* the mnemonic of the instruction after the one the loop is at, "" at the end
next_base ==
    IF ninstr + 1 < Len(instructions[1]) THEN instructions[1][ninstr + 2].base ELSE ""

\* acc_consumed that takes every instruction for a consumer
acc_consumed_Always(next) == TRUE

acc_consumed(next) ==
    \/ next \in {"Star", "Return", "LogicalNot", "ToBooleanLogicalNot", "TypeOf",
                 "ToNumber", "ToName", "ToObject", "ToBoolean", "ToNumeric", "ToString",
                 "Throw", "ReThrow",
                 "Add", "Sub", "Mul", "Div", "Mod", "Exp",
                 "AddSmi", "SubSmi", "MulSmi", "DivSmi", "ModSmi", "ExpSmi",
                 "BitwiseOr", "BitwiseXor", "BitwiseAnd",
                 "BitwiseOrSmi", "BitwiseXorSmi", "BitwiseAndSmi",
                 "ShiftLeft", "ShiftRight", "ShiftRightLogical",
                 "ShiftLeftSmi", "ShiftRightSmi",
                 "Inc", "Dec", "Negate", "BitwiseNot",
                 "Construct", "ConstructWithSpread"}
    \/ next \in JumpIfNames
    \/ next \in StaNames
    \/ next \in TestNames

\* the iteration of a call: the call expression becomes the accumulator, and
\* a statement unless the next instruction consumes it
CallExpression(text) ==
    /\ Step
    /\ acc' = text
    /\ acc_prec' = _P_ATOM
    /\ lines' = IF acc_consumed(next_base) THEN lines
                ELSE Append(lines, indent \o text \o <<";">>)
    /\ val_acc' = Atom(text)
    /\ UNCHANGED <<regs, val_regs>>

\* "%s(%s)" % (callee, ", ".join(call_args))
CallText(callee, call_args) == callee \o <<"(">> \o CommaJoin(call_args) \o <<")">>

CallProperty0 ==
    \E base \in {"CallProperty0", "CallUndefinedReceiver0"} :
        \E ops \in Drawn(base, {}) :
            CallExpression(CallText(get_reg(Part(Split(operands_str(base, ops)), 0, <<"?">>)), <<>>))

CallProperty1 ==
    \E ops \in Drawn("CallProperty1", {}) :
        CallExpression(CallText(get_reg(Part(Split(operands_str("CallProperty1", ops)), 0, <<"?">>)),
                                <<get_reg(Part(Split(operands_str("CallProperty1", ops)), 2, <<"?">>))>>))

CallProperty2 ==
    \E ops \in Drawn("CallProperty2", {}) :
        CallExpression(CallText(get_reg(Part(Split(operands_str("CallProperty2", ops)), 0, <<"?">>)),
                                <<get_reg(Part(Split(operands_str("CallProperty2", ops)), 2, <<"?">>)),
                                  get_reg(Part(Split(operands_str("CallProperty2", ops)), 3, <<"?">>))>>))

CallUndefinedReceiver1 ==
    \E ops \in Drawn("CallUndefinedReceiver1", {}) :
        CallExpression(CallText(get_reg(Part(Split(operands_str("CallUndefinedReceiver1", ops)), 0, <<"?">>)),
                                <<get_reg(Part(Split(operands_str("CallUndefinedReceiver1", ops)), 1, <<"?">>))>>))

CallUndefinedReceiver2 ==
    \E ops \in Drawn("CallUndefinedReceiver2", {}) :
        CallExpression(CallText(get_reg(Part(Split(operands_str("CallUndefinedReceiver2", ops)), 0, <<"?">>)),
                                <<get_reg(Part(Split(operands_str("CallUndefinedReceiver2", ops)), 1, <<"?">>)),
                                  get_reg(Part(Split(operands_str("CallUndefinedReceiver2", ops)), 2, <<"?">>))>>))

\* range_args[1:] if len(range_args) > 1 else []
AfterReceiver(range_args) == IF Len(range_args) > 1 THEN Tail(range_args) ELSE <<>>

\* range_args[:-1] if len(range_args) > 1 else range_args
BeforeNewTarget(range_args) ==
    IF Len(range_args) > 1 THEN SubSeq(range_args, 1, Len(range_args) - 1) ELSE range_args

CallProperty ==
    \E base \in {"CallProperty", "CallAnyReceiver", "CallWithSpread"} :
        \E ops \in Drawn(base, {}) :
            CallExpression(CallText(get_reg(Part(Split(operands_str(base, ops)), 0, <<"?">>)),
                                    AfterReceiver(_parse_reg_range_args(
                                        Part(Split(operands_str(base, ops)), 1, <<>>)))))

CallUndefinedReceiver ==
    \E ops \in Drawn("CallUndefinedReceiver", {}) :
        CallExpression(CallText(get_reg(Part(Split(operands_str("CallUndefinedReceiver", ops)), 0, <<"?">>)),
                                _parse_reg_range_args(
                                    Part(Split(operands_str("CallUndefinedReceiver", ops)), 1, <<>>))))

CallRuntime ==
    \E ops \in Drawn("CallRuntime", {}) :
        CallExpression(<<"/", "*", " ", "C", "a", "l", "l", "R", "u", "n", "t", "i", "m", "e", "(">> \o operands_str("CallRuntime", ops) \o <<")", " ", "*", "/">>)

InvokeIntrinsic ==
    \E ops \in Drawn("InvokeIntrinsic", {}) :
        CallExpression(<<"/", "*", " ", "I", "n", "v", "o", "k", "e", "I", "n", "t", "r", "i", "n", "s", "i", "c", "(">> \o operands_str("InvokeIntrinsic", ops) \o <<")", " ", "*", "/">>)

Construct ==
    \E base \in {"Construct", "ConstructWithSpread"} :
        \E ops \in Drawn(base, {}) :
            CallExpression(<<"n", "e", "w", " ">> \o CallText(get_reg(Part(Split(operands_str(base, ops)), 0, <<"?">>)),
                                    BeforeNewTarget(_parse_reg_range_args(
                                        Part(Split(operands_str(base, ops)), 1, <<>>)))))

(***************************************************************************)
(* Other handlers.                                                         *)
(***************************************************************************)
\* StackCheck is skipped before the handlers
StackCheck ==
    \E none \in Drawn("StackCheck", {}) :
        /\ Step
        /\ UNCHANGED <<acc, acc_prec, regs, lines, val_acc, val_regs>>

Throw ==
    \E none \in Drawn("Throw", {}) :
        /\ Step
        /\ lines' = Append(lines, indent \o <<"t", "h", "r", "o", "w", " ">> \o acc \o <<";">>)
        /\ UNCHANGED <<acc, acc_prec, regs, val_acc, val_regs>>

ReThrow ==
    \E none \in Drawn("ReThrow", {}) :
        /\ Step
        /\ lines' = Append(lines, indent \o <<"t", "h", "r", "o", "w", " ">> \o acc \o <<";", " ", "/", "*", " ", "r", "e", "t", "h", "r", "o", "w", " ", "*", "/">>)
        /\ UNCHANGED <<acc, acc_prec, regs, val_acc, val_regs>>

\* ToNumber without the store to its register
ToNumber_NoStore ==
    \E v \in Drawn("ToNumber", {}) :
        /\ Step
        /\ UNCHANGED <<acc, acc_prec, regs, lines, val_acc, val_regs>>

ToNumber ==
    \E v \in Drawn("ToNumber", {}) :
        /\ Step
        /\ regs' = Assign(regs, rname(_byte_to_register(v)), acc)
        /\ val_regs' = [val_regs EXCEPT ![v] = val_acc]
        /\ UNCHANGED <<acc, acc_prec, lines, val_acc>>

\* ToName and ToObject: pass
Coercion ==
    \E base \in {"ToName", "ToObject"} :
        \E v \in Drawn(base, {}) :
            /\ Step
            /\ UNCHANGED <<acc, acc_prec, regs, lines, val_acc, val_regs>>

\* the handler of a unary operator that leaves an atom
UnaryOperator(base, text) ==
    \E none \in Drawn(base, {}) :
        /\ Step
        /\ acc' = text
        /\ acc_prec' = _P_ATOM
        /\ val_acc' = Atom(text)
        /\ UNCHANGED <<regs, lines, val_regs>>

LogicalNot ==
    \E base \in {"LogicalNot", "ToBooleanLogicalNot"} :
        UnaryOperator(base, <<"!">> \o (IF acc_prec < _P_ATOM THEN Paren(acc) ELSE acc))

TypeOf == UnaryOperator("TypeOf", <<"t", "y", "p", "e", "o", "f", " ">> \o acc)

\* Inc and Dec
Increment(base, op_str) ==
    \E none \in Drawn(base, {}) :
        /\ Step
        /\ acc' = BinText(_wrap_left(acc, acc_prec, _P_ADD), op_str, <<"1">>)
        /\ acc_prec' = _P_ADD
        /\ val_acc' = BinValue(base, val_acc, Atom(<<"1">>))
        /\ UNCHANGED <<regs, lines, val_regs>>

Inc == Increment("Inc", <<"+">>)

Decrement == Increment("Dec", <<"-">>)

\* NameError of a global name that is not defined
NameError(name) == Exception(<<"name '%s' is not defined">>, <<name>>)

\* TestTypeOf calls _get_flag8, a name the module does not define
TestTypeOf ==
    \E flag \in Drawn("TestTypeOf", {}) :
        /\ exc = None
        /\ exc' = <<NameError(<<"_", "g", "e", "t", "_", "f", "l", "a", "g", "8">>)>>
        /\ UNCHANGED <<params, stack_locals, stack_first_slot, acc, acc_prec, regs, lines,
                       ninstr, instructions, cp, val_acc, val_regs, pureVars, mainVars>>

(***************************************************************************)
(* Sample programs.                                                        *)
(***************************************************************************)
Instruction(base, ops) == [base |-> base, ops |-> ops]

\* a constant pool: names that are identifiers, names that are not, and items
\* that are not strings
NamePool ==
    <<PyStr(<<"l", "e", "n", "g", "t", "h">>), PyStr(<<"m", "y", "-", "p", "r", "o", "p">>), PyStr(<<"x", "1">>), PyStr(<<"1", "x">>), PyStr(<<"$", "_">>), PyStr(<<>>),
      PyStr(<<"H", "e", "a", "p", "N", "u", "m", "b", "e", "r", ":", "x">>), PyStr(<<"O", "b", "j", "B", "o", "i", "l", "e", "r", "p", "l", "a", "t", "e", ":">>),
      [type |-> "int", value |-> 7],
      [type |-> "RootObject", name |-> <<"u", "n", "d", "e", "f", "i", "n", "e", "d", "_", "v", "a", "l", "u", "e">>, root_type |-> "Oddball"],
      [type |-> "RootObject", name |-> <<"e", "m", "p", "t", "y", "_", "s", "t", "r", "i", "n", "g">>, root_type |-> "str"],
      ConstantPoolRef(<<"S", "h", "a", "r", "e", "d", "F", "u", "n", "c", "t", "i", "o", "n", "I", "n", "f", "o">>, <<"<", "c", "l", "o", "s", "u", "r", "e", ":", " ", "f", ">">>),
      PyList(<<>>)>>

\* what is in the accumulator and in a register before the operator: a
\* constant, a parameter, a sum, a product, a value stored with Star or Mov
Preludes ==
    {<<>>}
    \cup {<<Instruction("LdaSmi", 2), Instruction("Star", v), Instruction("LdaSmi", 3)>> : v \in RegOperands}
    \cup {<<Instruction("Ldar", 3), Instruction("AddSmi", 3), Instruction("Star", v)>> : v \in RegOperands}
    \cup {<<Instruction("LdaSmi", 2), Instruction("Star", 251), Instruction("Mov", <<251, v>>),
            Instruction("Ldar", 2), Instruction("MulSmi", 2)>> : v \in RegOperands}
    \cup {<<Instruction("Mov", <<s, d>>), Instruction("LdaSmi", 3)>> : s \in RegOperands, d \in RegOperands}

RegisterOperators ==
    {"Add", "Sub", "Mul", "Div", "Mod", "BitwiseOr", "BitwiseXor", "BitwiseAnd",
     "ShiftLeft", "ShiftRight", "ShiftRightLogical"}

SmiOperators ==
    {"AddSmi", "SubSmi", "MulSmi", "DivSmi", "ModSmi", "BitwiseOrSmi", "BitwiseXorSmi",
     "BitwiseAndSmi", "ShiftLeftSmi", "ShiftRightSmi", "ShiftRightLogicalSmi"}

TestOperators ==
    {"TestEqual", "TestEqualStrict", "TestEqualStrictNoFeedback", "TestLessThan",
     "TestGreaterThan", "TestLessThanOrEqual", "TestGreaterThanOrEqual", "TestInstanceOf",
     "TestIn"}

TestLiterals == {"TestUndetectable", "TestNull", "TestUndefined"}

\* an operator that leaves a compound accumulator, one of each precedence
Compounds ==
    {Instruction("BitwiseOrSmi", 3), Instruction("BitwiseXorSmi", 3), Instruction("BitwiseAndSmi", 3),
     Instruction("TestEqual", 2), Instruction("TestLessThan", 2), Instruction("ShiftLeftSmi", 3),
     Instruction("AddSmi", 3), Instruction("MulSmi", 3)}

\* every operator that emits left OP right from the accumulator
BinaryOperators ==
    {Instruction(base, 2) : base \in RegisterOperators \cup TestOperators}
    \cup {Instruction(base, 3) : base \in SmiOperators}
    \cup {Instruction(base, <<>>) : base \in TestLiterals}

\* a call of each kind: the callee in r0, the receiver and the arguments from
\* r1 on
CallSamples ==
    {Instruction("CallProperty0", <<251, 250, 0>>),
     Instruction("CallUndefinedReceiver0", <<251, 0>>),
     Instruction("CallProperty1", <<251, 250, 249, 0>>),
     Instruction("CallProperty2", <<251, 250, 249, 248, 0>>),
     Instruction("CallUndefinedReceiver1", <<251, 250, 0>>),
     Instruction("CallUndefinedReceiver2", <<251, 250, 249, 0>>),
     Instruction("CallRuntime", <<5, 0, 250, 1>>),
     Instruction("InvokeIntrinsic", <<3, 250, 1>>)}
    \cup {Instruction(base, <<251, 250, 2, 0>>) :
            base \in {"CallProperty", "CallAnyReceiver", "CallWithSpread",
                      "CallUndefinedReceiver", "Construct", "ConstructWithSpread"}}

\* the instructions with a handler that take no operand, and those that take
\* a register
Bare ==
    {"Return", "StackCheck", "Throw", "ReThrow", "LogicalNot", "ToBooleanLogicalNot",
     "TypeOf", "Inc", "Dec"}

OnRegister == {"Ldar", "Star", "ToNumber", "ToName", "ToObject"}

\* an instruction of every kind that can follow a call
Followers ==
    BinaryOperators \cup CallSamples
    \cup {Instruction(base, <<>>) : base \in Bare}
    \cup {Instruction(base, v) : base \in OnRegister, v \in {3, 251}}
    \cup {Instruction("LdaSmi", 3), Instruction("Mov", <<3, 251>>),
          Instruction("TestTypeOf", 0), Instruction("LdaNamedProperty", <<3, 0>>)}

RangeCalls ==
    {"CallUndefinedReceiver", "CallProperty", "CallAnyReceiver", "CallWithSpread",
     "Construct", "ConstructWithSpread"}

\* the first register of a range and the number of its registers
RangeStarts == {251, 250, 2}

MaxCount == 3

\* a call as the last instruction and a call before every kind of
\* instruction; a call with a range of registers, after a store to r1 or not
CallPrograms ==
    {<<c>> : c \in CallSamples}
    \cup {<<c, f, Instruction("Return", <<>>)>> : c \in CallSamples, f \in Followers}
    \cup {prelude \o <<Instruction(base, <<251, start, count, 0>>), Instruction("Return", <<>>)>> :
            prelude \in {<<>>, <<Instruction("LdaSmi", 2), Instruction("Star", 250)>>},
            base \in RangeCalls, start \in RangeStarts, count \in 0 .. MaxCount}

\* a compound accumulator stored by ToNumber, Star or Mov and used again;
\* TestTypeOf of each flag
StorePrograms ==
    {<<Instruction("Ldar", 3), first, Instruction(store, v), Instruction("Ldar", v), second,
       Instruction("Return", <<>>)>> :
        first \in {Instruction("AddSmi", 3), Instruction("TestNull", <<>>)},
        store \in {"ToNumber", "Star"}, v \in RegOperands,
        second \in {Instruction("MulSmi", 2), Instruction("Mul", 3)}}
    \cup {<<Instruction("Ldar", 3), Instruction("AddSmi", 3), Instruction("ToNumber", 251),
            Instruction("Mov", <<251, v>>), Instruction("Ldar", v), Instruction("MulSmi", 2),
            Instruction("Return", <<>>)>> : v \in RegOperands}
    \cup {<<Instruction("Ldar", 3), Instruction("TestTypeOf", flag), Instruction("Return", <<>>)>> :
            flag \in 0 .. 8}

\* a prelude, one or two operators on registers or a property access, Return;
\* a parameter, an operator or none, an operator, Return
Programs ==
    {prelude \o <<Instruction(base, v), Instruction("Return", <<>>)>> :
        prelude \in Preludes, base \in RegisterOperators, v \in RegOperands}
    \cup {prelude \o <<Instruction(first, v), Instruction(base, v), Instruction("Return", <<>>)>> :
        prelude \in Preludes, first \in {"Add", "Mul"}, base \in RegisterOperators, v \in {2, 251}}
    \cup {prelude \o <<Instruction("LdaNamedProperty", <<v, idx>>), Instruction("Return", <<>>)>> :
        prelude \in Preludes, v \in RegOperands, idx \in 0 .. Len(NamePool)}
    \cup {<<Instruction("Ldar", 3)>> \o first \o <<second, Instruction("Return", <<>>)>> :
        first \in {<<>>} \cup {<<c>> : c \in Compounds}, second \in BinaryOperators}
    \cup CallPrograms \cup StorePrograms

ProgramScopes ==
    {[params |-> <<>>, stack_locals |-> <<>>],
     [params |-> <<<<"a", "r", "r">>>>, stack_locals |-> <<<<"t">>>>],
     [params |-> <<<<"x">>, <<"y">>>>, stack_locals |-> <<>>]}

ProgramInit ==
    /\ \E sc \in ProgramScopes :
          /\ params = sc.params
          /\ stack_locals = sc.stack_locals
    /\ \E program \in Programs : instructions = <<program>>
    /\ cp \in {None, <<NamePool>>}
    /\ ReconStart
    /\ PureIdle
    /\ MainIdle

ProgramNext ==
    \/ LdaSmi \/ Ldar \/ Star \/ Mov
    \/ Add \/ Sub \/ Mul \/ Div \/ Mod
    \/ BitwiseOr \/ BitwiseXor \/ BitwiseAnd
    \/ ShiftLeftOperator \/ ShiftRightOperator \/ ShiftRightLogical
    \/ AddSmi \/ SubSmi \/ MulSmi \/ DivSmi \/ ModSmi
    \/ BitwiseOrSmi \/ BitwiseXorSmi \/ BitwiseAndSmi
    \/ ShiftLeftSmi \/ ShiftRightSmi \/ ShiftRightLogicalSmi
    \/ TestEqual \/ TestEqualStrict \/ TestLessThan \/ TestGreaterThan
    \/ TestLessThanOrEqual \/ TestGreaterThanOrEqual \/ TestInstanceOf \/ TestIn
    \/ TestUndetectable \/ TestNull \/ TestUndefined
    \/ CallProperty0 \/ CallProperty1 \/ CallProperty2
    \/ CallUndefinedReceiver1 \/ CallUndefinedReceiver2
    \/ CallProperty \/ CallUndefinedReceiver \/ CallRuntime \/ InvokeIntrinsic \/ Construct
    \/ StackCheck \/ Throw \/ ReThrow \/ ToNumber \/ Coercion
    \/ LogicalNot \/ TypeOf \/ Inc \/ Decrement \/ TestTypeOf
    \/ LdaNamedProperty
    \/ ReturnStatement

SpecProgram == ProgramInit /\ [][ProgramNext]_vars

(***************************************************************************)
(* ScopeInfo (v6/structs.py) and the scope cache of the conversion of the  *)
(* function objects (jsc_decompiler.py).  Each call of a constructor is a  *)
(* frame of the stack; of a decoded scope the names are left out.          *)
(***************************************************************************)
\* ScopeInfoFlags.has_receiver
has_receiver(flags) == flags.recv \notin {<<3>>, <<0>>}

\* ScopeInfoFlags.has_function_var
has_function_var(flags) == flags.func_var # <<0>>

\* ScopeInfo.__init__: the offset of the outer scope after the parameters,
\* the stack locals, the context locals, the receiver and the function
\* variable
OuterScopeOffset(o, ps) ==
    LET flags == ScopeInfoFlags(ToInt(get_smi_int(o, ps + ps)))
        params_count == ToInt(get_smi_int(o, 3 * ps))
        stack_locals_count == ToInt(get_smi_int(o, 4 * ps))
        context_locals_count == ToInt(get_smi_int(o, 5 * ps))
    IN  6 * ps + params_count * ps + ps + stack_locals_count * ps
            + 2 * context_locals_count * ps
            + (IF has_receiver(flags) THEN ps ELSE 0)
            + (IF has_function_var(flags) THEN 2 * ps ELSE 0)

\* ScopeInfo.__init__: the object of the outer scope, or None
OuterObject(o, ps) ==
    IF ScopeInfoFlags(ToInt(get_smi_int(o, ps + ps))).has_outer_scope_info
    THEN get_aligned_object(o, OuterScopeOffset(o, ps))
    ELSE NoneValue

\* the depth of the stack of calls at which Python raises RecursionError
RecursionLimit == 5

RecursionError == Exception(<<"maximum recursion depth exceeded">>, <<>>)

ScopeFrame(obj) == [fn |-> "ScopeInfo", obj |-> obj, at |-> "outer_scope", scope_info |-> None]

FunctionFrame(obj) == [fn |-> "SharedFunctionInfo", obj |-> obj, at |-> "scope_info", scope_info |-> None]

\* scope_cache[obj_id] of an object in the cache, as the option of a node
Cached(run, obj) == <<run.scope_cache[obj.v]>>

\* whether the slot needs ScopeInfo(obj, ps, scope_cache)
Misses(run, obj) == IsReservObject(obj) /\ obj.v \notin DOMAIN run.scope_cache

\* the call of ScopeInfo(obj, ps, scope_cache): a new frame, or RecursionError
\* leaves all the frames and is caught by the loop over func_objects
Descend(run, obj) ==
    IF Len(run.stack) >= RecursionLimit
    THEN [run EXCEPT
             !.stack = <<>>,
             !.next = @ + 1,
             !.stderr = Append(@, Message(<<"Warning: Failed to parse function: %s">>, <<RecursionError>>))]
    ELSE [run EXCEPT !.stack = Append(@, ScopeFrame(obj.v)), !.decoded = Append(@, obj.v)]

\* the return of ScopeInfo.__init__ and scope_cache[obj_id] = ScopeInfo(...)
\* of its caller
Returned(run, obj, outer_scope) ==
    [run EXCEPT
        !.stack = SubSeq(@, 1, Len(@) - 1),
        !.nodes = Append(@, [obj |-> obj, outer_scope |-> outer_scope]),
        !.scope_cache = Assign(@, obj, Len(run.nodes) + 1)]

\* the slot of a SharedFunctionInfo read: the node of the cache or None
Linked(run, frame, obj) ==
    LET node == IF IsReservObject(obj) THEN Cached(run, obj) ELSE None
    IN  [run EXCEPT
            !.stack[Len(run.stack)] =
                IF frame.at = "scope_info" THEN [frame EXCEPT !.at = "outer_scope_info", !.scope_info = node]
                ELSE frame,
            !.stack = IF frame.at = "scope_info" THEN @ ELSE SubSeq(@, 1, Len(@) - 1),
            !.next = IF frame.at = "scope_info" THEN @ ELSE @ + 1,
            !.functions = IF frame.at = "scope_info" THEN @
                          ELSE Append(@, [obj |-> frame.obj, scope_info |-> frame.scope_info,
                                          outer_scope_info |-> node])]

ScopesStart ==
    [pc |-> "convert", next |-> 1, stack |-> <<>>, scope_cache |-> <<>>, nodes |-> <<>>, decoded |-> <<>>,
     functions |-> <<>>,
     stderr |-> <<Message(<<"Converting %d function objects...">>, <<Dec(Len(call.func_objects))>>)>>]

Scopes == IF ret = None THEN ScopesStart ELSE ret

Active == Scopes.stack[Len(Scopes.stack)]

\* the loop over func_objects: the call of SharedFunctionInfo for the next
\* function object, or the end of the loop
ConvertScopes ==
    /\ ~done /\ call.fn = "scopes" /\ Scopes.pc = "convert" /\ Scopes.stack = <<>>
    /\ ret' = IF Scopes.next <= Len(call.func_objects)
              THEN [Scopes EXCEPT !.stack = <<FunctionFrame(call.func_objects[Scopes.next].v)>>]
              ELSE [Scopes EXCEPT
                       !.pc = "exit",
                       !.stderr = Append(@, Message(<<"Extracted %d functions.">>, <<Dec(Len(Scopes.functions))>>))]
    /\ done' = (ret'.pc = "exit")
    /\ UNCHANGED <<call, reconVars, mainVars>>

\* SharedFunctionInfo.__init__ at the scope info and at the outer scope info
SharedFunctionInfo_scope(obj) ==
    /\ ret' = IF Misses(Scopes, obj) THEN Descend(Scopes, obj) ELSE Linked(Scopes, Active, obj)
    /\ UNCHANGED <<call, done, reconVars, mainVars>>

SharedFunctionInfo_scopes ==
    /\ ~done /\ call.fn = "scopes" /\ Scopes.stack # <<>> /\ Active.fn = "SharedFunctionInfo"
    /\ SharedFunctionInfo_scope(get_aligned_object(heap[Active.obj],
                                                   IF Active.at = "scope_info" THEN 3 * call.pointer_size
                                                   ELSE 4 * call.pointer_size))

\* ScopeInfo.__init__ at the outer scope
ScopeInfo_outer(obj) ==
    /\ ret' = IF Misses(Scopes, obj) THEN Descend(Scopes, obj)
              ELSE Returned(Scopes, Active.obj, IF IsReservObject(obj) THEN Cached(Scopes, obj) ELSE None)
    /\ UNCHANGED <<call, done, reconVars, mainVars>>

ScopeInfo_outer_scope ==
    /\ ~done /\ call.fn = "scopes" /\ Scopes.stack # <<>> /\ Active.fn = "ScopeInfo"
    /\ ScopeInfo_outer(OuterObject(heap[Active.obj], call.pointer_size))

(***************************************************************************)
(* Sample heaps with scopes.                                               *)
(***************************************************************************)
NScopes == 3

ScopeIds == 1 .. NScopes

\* the raw flags of a function scope, with a receiver in the context
ScopeFlags(has_outer, receiver) ==
    1 + (IF receiver THEN 256 ELSE 0) + (IF has_outer THEN 16777216 ELSE 0)

\* a ScopeInfo object without names: flags, counts, the outer scope
ScopeObject(outer, receiver, ps) ==
    LET flagged == PutSmi(ReservObject(9 * ps), 2 * ps, ScopeFlags(outer # 0, receiver), ps)
        counted == PutSmi(PutSmi(PutSmi(flagged, 3 * ps, 0, ps), 4 * ps, 0, ps), 5 * ps, 0, ps)
    IN  IF outer = 0 THEN counted
        ELSE add_object(counted, (IF receiver THEN 8 ELSE 7) * ps, Obj(outer))

\* a SharedFunctionInfo object with its scope objects
FunctionWithScopes(scopes, ps) ==
    Put(Put(FunctionObject(Root(<<"e", "m", "p", "t", "y", "_", "s", "t", "r", "i", "n", "g">>), 1, ps),
            3 * ps, IF scopes[1] = 0 THEN NoneValue ELSE Obj(scopes[1])),
        4 * ps, IF scopes[2] = 0 THEN NoneValue ELSE Obj(scopes[2]))

\* the scopes of a function object: its scope info and its outer scope info
FunctionScopes == {<<1, 0>>, <<2, 0>>, <<1, 3>>}

MaxScopeFunctions == 2

\* the scope objects with the outer links given, the second with a receiver,
\* then the function objects
ScopesHeap(outer, funcs, ps) ==
    [i \in ScopeIds |-> ScopeObject(outer[i], i = 2, ps)]
        \o [i \in DOMAIN funcs |-> FunctionWithScopes(funcs[i], ps)]

ScopesCalls ==
    {[fn |-> "scopes", pointer_size |-> ps, heap |-> ScopesHeap(outer, funcs, ps),
      func_objects |-> [i \in DOMAIN funcs |-> Obj(NScopes + i)]] :
        ps \in PointerSizes,
        outer \in [ScopeIds -> 0 .. NScopes],
        funcs \in UNION {[1 .. n -> FunctionScopes] : n \in 1 .. MaxScopeFunctions}}

(***************************************************************************)
(* Pure-function harness: Init draws one call with its inputs, the action  *)
(* of the function applies it.                                             *)
(***************************************************************************)
PureCalls ==
    ReadIntCalls \cup BackRefCalls \cup RegisterCalls \cup FillCalls \cup FlagsCalls
        \cup HashCalls \cup DisasmCalls \cup ConsCalls \cup NameCalls
        \cup FunctionsCalls \cup ScopesCalls

PureInit ==
    /\ call \in PureCalls
    /\ ret = None
    /\ done = FALSE
    /\ ReconIdle
    /\ MainRest
    /\ is_32bit = ("pointer_size" \in DOMAIN call /\ call.pointer_size = 4)
    /\ heap = IF "heap" \in DOMAIN call THEN call.heap ELSE <<>>

Call_read_int ==
    /\ ~done /\ call.fn = "_read_int"
    /\ ret' = _read_int(call.data, call.pos)
    /\ done' = TRUE
    /\ UNCHANGED <<call, reconVars, mainVars>>

Call_back_ref ==
    /\ ~done /\ call.fn = "back_ref"
    /\ ret' = DecodeBackRef(call.is_32bit, call.space, call.back_ref)
    /\ done' = TRUE
    /\ UNCHANGED <<call, reconVars, mainVars>>

Call_byte_to_register ==
    /\ ~done /\ call.fn = "_byte_to_register"
    /\ ret' = _byte_to_register(call.val)
    /\ done' = TRUE
    /\ UNCHANGED <<call, reconVars, mainVars>>

Call_get_fill_to_align ==
    /\ ~done /\ call.fn = "_get_fill_to_align"
    /\ ret' = _get_fill_to_align(call.next_alignment, call.kPointerSize, call.address)
    /\ done' = TRUE
    /\ UNCHANGED <<call, reconVars, mainVars>>

Call_ScopeInfoFlags ==
    /\ ~done /\ call.fn = "ScopeInfoFlags"
    /\ ret' = ScopeInfoFlags(call.flags)
    /\ done' = TRUE
    /\ UNCHANGED <<call, reconVars, mainVars>>

\* version_hash, one statement at a time
Call_version_hash ==
    /\ ~done /\ call.fn = "version_hash"
    /\ ret' = Fold(IF ret = None THEN HashStart ELSE ret, hash_combine, call.version, FALSE)
    /\ done' = (ret'.value # None)
    /\ UNCHANGED <<call, reconVars, mainVars>>

\* version_hash64, one statement at a time
Call_version_hash64 ==
    /\ ~done /\ call.fn = "version_hash64"
    /\ ret' = Fold(IF ret = None THEN HashStart ELSE ret, hash_combine64, call.version, TRUE)
    /\ done' = (ret'.value # None)
    /\ UNCHANGED <<call, reconVars, mainVars>>

\* disassemble_bytecode before its loop
DisasmStart == [instructions |-> <<>>, pos |-> 0]

\* disassemble_bytecode, one pass of its loop at a time
Call_disassemble_bytecode ==
    /\ ~done /\ call.fn = "disassemble_bytecode"
    /\ LET st == IF ret = None THEN DisasmStart ELSE ret
       IN  IF st.pos >= Len(call.bytecode)
           THEN ret' = st /\ done' = TRUE
           ELSE LET pass == LoopPass(call.bytecode, call.constant_pool, st.pos)
                IN  /\ ret' = [instructions |-> st.instructions \o pass.emitted,
                               pos |-> pass.pos]
                    /\ done' = (pass.stop \/ pass.pos >= Len(call.bytecode))
    /\ UNCHANGED <<call, reconVars, mainVars>>

Call_convert_cons_one_byte_string ==
    /\ ~done /\ call.fn = "convert_cons_one_byte_string"
    /\ ret' = convert_cons_one_byte_string(call.obj, call.pointer_size)
    /\ done' = TRUE
    /\ UNCHANGED <<call, reconVars, mainVars>>

Call_SharedFunctionInfo ==
    /\ ~done /\ call.fn = "SharedFunctionInfo"
    /\ ret' = SharedFunctionInfo_name(heap[call.obj.v], call.pointer_size)
    /\ done' = TRUE
    /\ UNCHANGED <<call, reconVars, mainVars>>

Call_extract_sfi_name ==
    /\ ~done /\ call.fn = "_extract_sfi_name"
    /\ ret' = _extract_sfi_name(heap[call.obj.v], call.pointer_size)
    /\ done' = TRUE
    /\ UNCHANGED <<call, reconVars, mainVars>>

(***************************************************************************)
(* _run_legacy_pipeline from the function objects on, for the JavaScript   *)
(* output with progress messages: one pass of a loop per step.  ret is the *)
(* state of the run: the functions converted, the lines of the output, what *)
(* was printed.  Of the body of a function only a mark is kept.            *)
(***************************************************************************)
FunctionsStart ==
    [pc |-> "convert", next |-> 1, functions |-> <<>>, lines |-> <<>>, stdout |-> None, exit_status |-> None,
     stderr |-> <<Message(<<"Converting %d function objects...">>, <<Dec(Len(call.func_objects))>>)>>]

Run == IF ret = None THEN FunctionsStart ELSE ret

\* the run after the pass for a function object: the function converted is
\* appended, or its exception is reported
Converted(run, sfi, last) ==
    [run EXCEPT
        !.next = IF last THEN 1 ELSE @ + 1,
        !.pc = IF last THEN "format_js_output" ELSE "convert",
        !.functions = IF sfi.raised = None THEN Append(@, sfi) ELSE @,
        !.stderr = IF sfi.raised = None THEN @
                   ELSE Append(@, Message(<<"Warning: Failed to parse function: %s">>, sfi.raised))]

\* one pass of the loop over func_objects
ConvertFunction ==
    /\ ~done /\ call.fn = "functions" /\ Run.pc = "convert"
    /\ ret' = Converted(Run, SharedFunctionInfo(heap[call.func_objects[Run.next].v], call.pointer_size),
                        Run.next = Len(call.func_objects))
    /\ UNCHANGED <<call, done, reconVars, mainVars>>

\* format_js_output up to its loop
format_js_output ==
    /\ ~done /\ call.fn = "functions" /\ Run.pc = "format_js_output"
    /\ ret' = [Run EXCEPT
                  !.pc = "function",
                  !.lines = <<Message(<<"// V8 Version: %s (%s)">>,
                                      <<version, IF is_32bit THEN <<"32-bit">> ELSE <<"64-bit">>>>),
                              Message(<<"// Decompiled from: %s">>, <<FileName>>),
                              Message(<<"// Functions: %d">>, <<Dec(Len(Run.functions))>>),
                              <<>>>>]
    /\ UNCHANGED <<call, done, reconVars, mainVars>>

\* the line that opens a function
FunctionHeader(name) == Message(<<"function %s(%s) {">>, <<name, <<>>>>)

\* the run after the pass for a function: its lines are appended, or the
\* exception of reconstruct_js ends the run
Formatted(run, sfi, raised) ==
    IF raised # None
    THEN [run EXCEPT !.pc = "exit", !.exit_status = <<1>>,
                     !.stderr = @ \o Uncaught("ValueError", raised[1])]
    ELSE [run EXCEPT !.next = @ + 1,
                     !.lines = @ \o <<FunctionHeader(sfi.name),
                                      IF sfi.bytecode = None
                                      THEN Message(<<"// No bytecode available for %s\n">>, <<sfi.name>>)
                                      ELSE Message(<<"<body>">>, <<>>),
                                      <<"}">>, <<>>>>]

\* one pass of the loop of format_js_output; an exception of reconstruct_js
\* ends the run
FormatFunction ==
    /\ ~done /\ call.fn = "functions" /\ Run.pc = "function" /\ Run.next <= Len(Run.functions)
    /\ ret' = Formatted(Run, Run.functions[Run.next], reconstruct_js_raised(Run.functions[Run.next]))
    /\ done' = (ret'.pc = "exit")
    /\ UNCHANGED <<call, reconVars, mainVars>>

\* print(format_js_output(...)) and the return of main
PrintOutput ==
    /\ ~done /\ call.fn = "functions" /\ Run.pc = "function" /\ Run.next > Len(Run.functions)
    /\ ret' = [Run EXCEPT !.pc = "exit", !.stdout = <<Run.lines>>, !.exit_status = <<0>>]
    /\ done' = TRUE
    /\ UNCHANGED <<call, reconVars, mainVars>>

PureNext ==
    \/ Call_read_int
    \/ Call_back_ref
    \/ Call_byte_to_register
    \/ Call_get_fill_to_align
    \/ Call_ScopeInfoFlags
    \/ Call_version_hash
    \/ Call_version_hash64
    \/ Call_disassemble_bytecode
    \/ Call_convert_cons_one_byte_string
    \/ Call_SharedFunctionInfo
    \/ Call_extract_sfi_name
    \/ ConvertFunction
    \/ format_js_output
    \/ FormatFunction
    \/ PrintOutput
    \/ ConvertScopes
    \/ SharedFunctionInfo_scopes
    \/ ScopeInfo_outer_scope

SpecPure == PureInit /\ [][PureNext]_vars


(***************************************************************************)
(* Properties of the pure functions.                                       *)
(***************************************************************************)
\* C4: varint round trip.  For every n in [0, 2^30) encoded in its minimum
\* width k as the k little-endian bytes of (n << 2) | (k - 1) and followed by
\* at least 4 - k further bytes, _read_int returns n and leaves the reader
\* advanced by exactly k bytes.
C4_VarintRoundTrip ==
    (done /\ call.fn = "_read_int") =>
        /\ ret.value = call.n
        /\ ret.pos = call.pos + VarintWidth(call.n)

\* C4 witness: a 1-byte, a 2-byte and a 4-byte varint followed by non-zero
\* bytes have been decoded (one of them in this state).
C4_Witness ==
    /\ done /\ call.fn = "_read_int"
    /\ call.n \in {63, 2 ^ 14 - 1, 2 ^ 30 - 1}
    /\ call.data[Len(call.data)] = 255
    /\ call.pos = 1
    /\ ret.value = call.n

\* C5: back-reference decoding recovers (c, o) for a back-reference into any
\* allocation space: 32-bit, c < 2^12, o a multiple of 4 with o/4 < 2^17, word
\* (c << 17) | (o >> 2); 64-bit, c < 2^13, o a multiple of 8 with o/8 < 2^16,
\* word (c << 16) | (o >> 3).
C5_InRange ==
    IF call.is_32bit
    THEN call.c < 2 ^ 12 /\ call.o % 4 = 0 /\ call.o \div 4 < 2 ^ 17
    ELSE call.c < 2 ^ 13 /\ call.o % 8 = 0 /\ call.o \div 8 < 2 ^ 16

C5_BackRefRecovered ==
    (done /\ call.fn = "back_ref" /\ C5_InRange) =>
        /\ ret.chunk_index = call.c
        /\ ret.chunk_offset = call.o

\* C6: register mapping.  Bytes 2..127 are a(v-2); bytes 128..251 are
\* r(251-v), the index decreasing as the byte increases; 252 is _closure and
\* 253 is _context; no two bytes in 2..253 share a name.
C6_RegisterMapping ==
    (done /\ call.fn = "_byte_to_register") =>
        /\ (call.val \in 2 .. 127 => ret = <<"a">> \o Dec(call.val - 2))
        /\ (call.val \in 128 .. 251 => ret = <<"r">> \o Dec(251 - call.val))
        /\ (call.val = 252 => ret = <<"_", "c", "l", "o", "s", "u", "r", "e">>)
        /\ (call.val = 253 => ret = <<"_", "c", "o", "n", "t", "e", "x", "t">>)
        /\ (call.val \in 2 .. 253 =>
                \A w \in 2 .. 253 : w # call.val => _byte_to_register(w) # ret)

\* C6 witness: the last stack-register byte has been mapped to r0.
C6_Witness == done /\ call.fn = "_byte_to_register" /\ call.val = 251 /\ ret = <<"r", "0">>

\* C7: alignment filler size.  DoubleAligned gives pointer_size when a & 7 is
\* non-zero and 0 otherwise; DoubleUnaligned gives 8 - pointer_size when a & 7
\* is non-zero and 0 otherwise; Word always gives 0.
C7_FillToAlign ==
    (done /\ call.fn = "_get_fill_to_align") =>
        ret = IF call.next_alignment = kWordAligned \/ call.address % 8 = 0 THEN 0
              ELSE IF call.next_alignment = kDoubleAligned THEN call.kPointerSize
              ELSE 8 - call.kPointerSize

\* C7 witness: a DoubleUnaligned fill of 4 bytes at an address that is not a
\* multiple of 8.
C7_Witness ==
    /\ done /\ call.fn = "_get_fill_to_align"
    /\ call.next_alignment = kDoubleUnaligned /\ call.kPointerSize = 4
    /\ call.address % 8 = 4 /\ ret = 4

\* C8: ScopeInfo flag unpacking.  Each decoded field equals the bit-field of
\* flags_raw at its position, and no extracted value is replaced by an absent
\* value.
BitField(flags, lo, width) == (flags \div (2 ^ lo)) % (2 ^ width)

C8_FlagsUnpacked ==
    (done /\ call.fn = "ScopeInfoFlags") =>
        /\ ret.scope = <<BitField(call.flags, 0, 4)>>
        /\ ret.calls_sloppy_eval = (BitField(call.flags, 4, 1) = 1)
        /\ ret.lang_mode = <<BitField(call.flags, 5, 1)>>
        /\ ret.declaration_scope = (BitField(call.flags, 6, 1) = 1)
        /\ ret.recv = <<BitField(call.flags, 7, 2)>>
        /\ ret.has_new_target = (BitField(call.flags, 9, 1) = 1)
        /\ ret.func_var = <<BitField(call.flags, 10, 2)>>
        /\ ret.asm_module = (BitField(call.flags, 12, 1) = 1)
        /\ ret.has_simple_parameters = (BitField(call.flags, 13, 1) = 1)
        /\ ret.kind = <<BitField(call.flags, 14, 10)>>
        /\ ret.has_outer_scope_info = (BitField(call.flags, 24, 1) = 1)
        /\ ret.is_debug_evaluate_scope = (BitField(call.flags, 25, 1) = 1)


(***************************************************************************)
(* Properties of the reconstructor.                                        *)
(***************************************************************************)
\* the value is (a + b) * c for atoms a, b, c
IsProductOfSum(t) ==
    /\ t[1] = "*" /\ ~IsAtom(t[2]) /\ IsAtom(t[3])
    /\ t[2][1] = "+" /\ IsAtom(t[2][2]) /\ IsAtom(t[2][3])

\* the value is a + (b * c) for atoms a, b, c
IsSumWithProduct(t) ==
    /\ t[1] = "+" /\ IsAtom(t[2]) /\ ~IsAtom(t[3])
    /\ t[3][1] = "*" /\ IsAtom(t[3][2]) /\ IsAtom(t[3][3])

\* the text (a + b) * c
ProductOfSumText(t) ==
    BinText(Paren(BinText(t[2][2][2], <<"+">>, t[2][3][2])), <<"*">>, t[3][2])

\* the text a + b * c
SumWithProductText(t) ==
    BinText(t[2][2], <<"+">>, BinText(t[3][2][2], <<"*">>, t[3][3][2]))

\* the text a + (b * c)
SumWithWrappedProductText(t) ==
    BinText(t[2][2], <<"+">>, Paren(BinText(t[3][2][2], <<"*">>, t[3][3][2])))

AsComputed == ~val_acc.named /\ ~val_acc.reloaded

MagicWord == <<data[4] * 256 + data[3], data[2] * 256 + data[1]>>

VersionHashWord == <<data[8] * 256 + data[7], data[6] * 256 + data[5]>>

\* the run ended in main itself: nothing of the header beyond the magic and
\* nothing of the payload was read
EndedInMain ==
    /\ pc = "exit" /\ event.kind = "main"
    /\ pos = 0 /\ version = <<>> /\ heap = <<>> /\ reserv = <<>> /\ stdout = <<>>

\* the legacy pipeline was entered
PipelineEntered == pc # "main" /\ event.kind # "main"

NamesNode22 ==
    \E i \in DOMAIN stderr :
        stderr[i].fmt \in {<<"Error: This file was compiled with Node.js 22+ (V8 12.x).">>,
                           <<"Node 22 support is available separately.">>}

\* C1: for every file of at least 8 bytes, the legacy pipeline is entered only
\* when the little-endian u32 at offset 0 is 0xC0DE0BEE or 0xC0DE03BE; magic
\* 0xC0DE0628 ends the run with status 1 and a message naming Node 22, every
\* other magic ends the run with status 1, both before any header field or
\* payload byte is parsed.
C1_MagicRouting ==
    (Len(data) >= 8 /\ pc # "main") =>
        /\ PipelineEntered => MagicWord \in {<<\hC0DE, \h0BEE>>, <<\hC0DE, \h03BE>>}
        /\ MagicWord = <<\hC0DE, \h0628>> =>
              EndedInMain /\ exit_status = <<1>> /\ NamesNode22
        /\ MagicWord \notin {<<\hC0DE, \h0BEE>>, <<\hC0DE, \h03BE>>, <<\hC0DE, \h0628>>} =>
              EndedInMain /\ exit_status = <<1>>

\* C1 witness: a file with magic 0xC0DE0628 and a complete header has been
\* turned away with the Node 22 message.
C1_Witness ==
    /\ Len(data) >= 40 /\ MagicWord = <<\hC0DE, \h0628>>
    /\ pc = "exit" /\ exit_status = <<1>> /\ NamesNode22

\* the reserved control bytes
ReservedControlBytes ==
    {\h0F, \h15, \h16, \h17, \h18, \h19, \h1A, \h1B, \h1C, \h2F, \h4F, \h6F}
        \cup (\h38 .. \h3F) \cup (\h58 .. \h5F) \cup (\h80 .. \h9F) \cup (\hA0 .. \hBF)
        \cup (\hC0 .. \hDF) \cup (\hE0 .. \hEF)

\* b matches one of the (where, how, within) combinations
MatchesCombination(b) ==
    \E i \in DOMAIN Combinations :
        LET space == b - (Combinations[i].where + Combinations[i].how + Combinations[i].within)
        IN  IF Combinations[i].do = "_do_all_spaces" THEN space \in 0 .. 4 ELSE space = 0

\* C2: a payload byte that matches none of the (where, how, within)
\* combinations and is none of the reserved control bytes aborts the parse
\* with a format error whose message names the byte and its file offset; the
\* run exits with status 1 and emits no function output.
C2_WrongByteAborts ==
    (event.kind = "_read_data" /\ ~MatchesCombination(event.b)
                               /\ event.b \notin ReservedControlBytes) =>
        /\ pc = "exit" /\ exit_status = <<1>>
        /\ \E i \in DOMAIN stderr :
              /\ stderr[i].fmt = <<"Error parsing JSC file: %s",
                                   "Wrong JSC byte data: 0x%02X at pos 0x%X">>
              /\ stderr[i].args = <<Hex02(event.b), Hex(event.at)>>
        /\ stdout = <<>>

\* C2 witness: the byte 0x06 inside a nested object, behind 23 payload bytes,
\* has aborted the parse.
C2_Witness ==
    /\ event.kind = "_read_data" /\ event.b = \h06 /\ event.at = 40 + 20 + 23
    /\ Len(stack) > 1
    /\ pc = "exit" /\ exit_status = <<1>>

\* the last step read a back-reference, in the payload or in the deferred section
ReadBackRef ==
    \/ event.kind = "_read_data" /\ event.branch = "kBackref" /\ ~event.raised
    \/ event.kind = "deferred" /\ event.branch = "object"

\* C3: a back-reference whose (chunk_index, chunk_offset) designates no object
\* written earlier (chunk index not below the number of chunks of the space,
\* or no object at the offset) is reported as a format error; no empty
\* reference is inserted at the insertion offset of the enclosing object and
\* none is promoted into the hot ring.
C3_BackRefChecked ==
    /\ (ReadBackRef /\ event.back_obj = NoneValue) => (pc = "exit" /\ exit_status = <<1>>)
    /\ (event.kind = "_read_data" /\ event.branch = "kBackref" /\ ~event.raised) =>
          Get(heap[event.obj], event.insert_off) # NoneValue
    /\ \A i \in DOMAIN hots : hots[i] # NoneValue

\* the version hash of the header is in neither catalog map
UnknownHash ==
    /\ Len(data) >= 8
    /\ VersionHashWord \notin DOMAIN detector.ver_hashes_32
    /\ VersionHashWord \notin DOMAIN detector.ver_hashes_64

Warnings ==
    {i \in DOMAIN stderr :
        stderr[i].fmt = <<"Warning: Unknown version hash 0x%08X, assuming 64-bit">>}

\* C10: a version hash in neither catalog map is not fatal: the version is
\* reported as Unknown, the bitness query reports an error, the pipeline emits
\* one warning (none with --quiet) and goes on to deserialize with pointer
\* size 8.
C10_UnknownHash ==
    (PipelineEntered /\ pc # "_run_legacy_pipeline" /\ UnknownHash) =>
        /\ version = <<"U", "n", "k", "n", "o", "w", "n">>
        /\ detect_bitness(VersionHashWord) = None
        /\ Cardinality(Warnings) = IF args.quiet THEN 0 ELSE 1
        /\ \A i \in Warnings : stderr[i].args = <<Hex08(VersionHashWord)>>
        /\ event.kind = "detect" => (pc = "parse" /\ exit_status = None)
        /\ ~is_32bit /\ kPointerSize = 8
        /\ (pc = "_read_data" /\ stack[1].caller = "parse") => stack[1].size = 8

\* C10 witness: with an unknown hash and without --quiet, a new object has
\* been allocated in the payload, one pointer of 8 bytes per word.
C10_Witness ==
    /\ UnknownHash /\ ~args.quiet
    /\ event.kind = "_read_data" /\ event.branch = "_read_object"
    /\ ~event.raised /\ event.size = 8
    /\ Cardinality(Warnings) = 1

(***************************************************************************)
(* Properties of the alignment state of the deserializer.                  *)
(***************************************************************************)
\* the last step read an alignment prefix, in the payload or in the deferred
\* section
ReadAlignmentPrefix ==
    /\ event.kind \in {"_read_data", "deferred"}
    /\ event.branch = "kAlignmentPrefix"

\* C19: in both loops an alignment prefix sets the next alignment, 0x15 to
\* Word, 0x16 to DoubleAligned, 0x17 to DoubleUnaligned, and leaves the
\* insertion offset as it is; the next alignment is always one of the three.
C19_AlignmentPrefix ==
    /\ ReadAlignmentPrefix =>
          /\ event.b = \h15 => next_alignment = <<kWordAligned>>
          /\ event.b = \h16 => next_alignment = <<kDoubleAligned>>
          /\ event.b = \h17 => next_alignment = <<kDoubleUnaligned>>
          /\ event.kind = "_read_data" => Top.insert_off = event.insert_off
    /\ next_alignment \in {<<kWordAligned>>, <<kDoubleAligned>>, <<kDoubleUnaligned>>}

\* the last step allocated a new object in a chunk while the next alignment
\* was not Word
AllocatedUnaligned ==
    /\ event.kind = "_read_data" /\ event.branch = "_read_object" /\ ~event.raised
    /\ event.chunk # 0
    /\ event.alignment # <<kWordAligned>>

\* C20: when a new object is allocated while the next alignment is not Word,
\* the chunk's write cursor advances by the object size plus max_fill, which
\* is 0 when pointer_size is 4 and 8 - pointer_size otherwise.
C20_MaximumFill ==
    AllocatedUnaligned =>
        heap[event.chunk].offset - event.cursor - event.size =
            (IF kPointerSize = 4 THEN 0 ELSE 8 - kPointerSize)

\* the pipeline has tried to open its metadata and one file cannot be read
MetadataUnreadable ==
    /\ event.kind = "detect"
    /\ readable # AllReadable

\* C12: a metadata file that cannot be read is treated as an empty table and
\* the pipeline goes on to parse the input file; the run is not aborted.
C12_MetadataSoftFail ==
    MetadataUnreadable =>
        /\ event.raised = None
        /\ pc = "parse"
        /\ exit_status = None

(***************************************************************************)
(* Properties of the version hashes.                                       *)
(***************************************************************************)
\* v is a natural number below 256^n written with n digits
Below256(v, n) == Len(v) = n /\ \A i \in 1 .. n : v[i] \in 0 .. 255

\* the seed and the count of numbers folded so far
HashSoFar == IF ret = None THEN [seed |-> <<>>, folded |-> 0] ELSE ret

\* one statement of version_hash or version_hash64 folds the next of patch,
\* build, minor, major into the seed, within 32 or 64 bits
HashStatement ==
    LET name == <<"patch", "build", "minor", "major">>[HashSoFar.folded + 1]
        h == hash_value_unsigned(Base256(call.version[name]))
        wide == call.fn = "version_hash64"
    IN  /\ Below256(h, 4)
        /\ ret'.folded = HashSoFar.folded + 1
        /\ ret'.seed = IF wide THEN hash_combine64(HashSoFar.seed, h)
                       ELSE hash_combine(HashSoFar.seed, h)
        /\ Below256(ret'.seed, IF wide THEN 8 ELSE 4)
        /\ done' = (ret'.folded = 4)
        /\ IF done'
           THEN ret'.value = <<SubSeq(ret'.seed, 1, 4)>> /\ Below256(ret'.value[1], 4)
           ELSE ret'.value = None

\* C18: version_hash is hash_combine folded from seed 0 over H(patch),
\* H(build), H(minor), H(major) in that order and version_hash64 the same fold
\* with hash_combine64, cut to its low 32 bits at the end; every H and every
\* 32-bit seed is below 2^32, every 64-bit seed below 2^64, both results are
\* below 2^32.
C18_VersionHash ==
    [][call.fn \in {"version_hash", "version_hash64"} => HashStatement]_vars

\* C18 witness: V8 6.2.414.54, the engine of Node 8, has been hashed: to
\* 0x2853ED06 by version_hash, or to 0x7D1BF182 by version_hash64 whose 64-bit
\* seed was above 2^32 before the final cut.
C18_Witness ==
    /\ done /\ call.fn \in {"version_hash", "version_hash64"}
    /\ call.version = [major |-> 6, minor |-> 2, build |-> 414, patch |-> 54]
    /\ \/ call.fn = "version_hash" /\ Word(ret.value[1]) = <<\h2853, \hED06>>
       \/ /\ call.fn = "version_hash64" /\ Word(ret.value[1]) = <<\h7D1B, \hF182>>
          /\ \E i \in 5 .. 8 : ret.seed[i] # 0

(***************************************************************************)
(* Properties of the disassembler.                                         *)
(***************************************************************************)
Disassembling == call.fn = "disassemble_bytecode" /\ ~done

\* where the next pass starts
Cursor == IF ret = None THEN 0 ELSE ret.pos

Appended == IF ret = None THEN <<>> ELSE ret.instructions

\* the pass starts at a Wide or ExtraWide prefix that an opcode byte follows
Prefixed ==
    /\ call.bytecode[Cursor + 1] \in {\h00, \h01}
    /\ Cursor + 2 <= Len(call.bytecode)

\* the opcode byte of the pass
OpcodeByte ==
    IF Prefixed THEN call.bytecode[Cursor + 2] ELSE call.bytecode[Cursor + 1]

\* the cursor right after the opcode byte
AfterOpcode == IF Prefixed THEN Cursor + 2 ELSE Cursor + 1

\* the pass is about an opcode byte that the table does not have
AtUnknownOpcode ==
    /\ Disassembling /\ Cursor < Len(call.bytecode)
    /\ OpcodeByte \notin DOMAIN OPCODES

\* on an opcode byte that is not in the table the pass appends the one
\* record UNKNOWN 0x.. of the byte and its prefix and stops after the byte
UnknownRecorded ==
    AtUnknownOpcode =>
        /\ ret'.instructions =
              Append(Appended,
                     [offset |-> Cursor, mnemonic |-> <<"UNKNOWN">>,
                      operands |-> <<"0", "x", HexDigits[(OpcodeByte \div 16) + 1],
                                     HexDigits[(OpcodeByte % 16) + 1]>>,
                      raw_bytes |-> SubSeq(call.bytecode, Cursor + 1, AfterOpcode),
                      comment |-> <<>>])
        /\ ret'.pos = AfterOpcode
        /\ done' = (AfterOpcode >= Len(call.bytecode))

\* the bytes of the records, in order
RECURSIVE RawBytes(_)
RawBytes(records) ==
    IF records = <<>> THEN <<>>
    ELSE Head(records).raw_bytes \o RawBytes(Tail(records))

\* the loop was left at a prefix that is the last byte of the buffer
LeftAtPrefix ==
    /\ done /\ Cursor = Len(call.bytecode) /\ Cursor >= 1
    /\ call.bytecode[Cursor] \in {\h00, \h01}
    /\ Len(RawBytes(Appended)) = Cursor - 1

\* the records appended so far are the bytes before the cursor, or before
\* the prefix the loop was left at, each record at the offset where the one
\* before it ended
Contiguous ==
    call.fn = "disassemble_bytecode" =>
        /\ RawBytes(Appended) =
              SubSeq(call.bytecode, 1,
                     IF LeftAtPrefix THEN Cursor - 1
                     ELSE IF Cursor > Len(call.bytecode) THEN Len(call.bytecode)
                     ELSE Cursor)
        /\ \A i \in DOMAIN Appended :
              Appended[i].offset = Len(RawBytes(SubSeq(Appended, 1, i - 1)))

\* C13: an opcode byte that is not in the opcode table, bare or after a Wide
\* or ExtraWide prefix, appends exactly one UNKNOWN record with the byte in
\* hex, takes no operand byte, and the next pass decodes from the byte after
\* it: the records always cover the buffer up to the cursor without a gap
\* (up to a prefix that ends the buffer).
C13_UnknownOpcode == [][UnknownRecorded /\ Contiguous']_vars

\* C13 witness: a buffer has been disassembled to the end in which an
\* unknown opcode after a prefix is followed by LdaSmi [2] and Return, both
\* decoded.
C13_Witness ==
    /\ call.fn = "disassemble_bytecode" /\ done
    /\ Len(ret.instructions) = 3
    /\ ret.instructions[1].mnemonic = <<"UNKNOWN">>
    /\ Len(ret.instructions[1].raw_bytes) = 2
    /\ ret.instructions[2].mnemonic = <<"LdaSmi">> /\ ret.instructions[2].operands = <<"[", "2", "]">>
    /\ ret.instructions[3].mnemonic = <<"Return">>

(***************************************************************************)
(* Properties of the object conversions and of function names.             *)
(***************************************************************************)
\* the conversion of a child of a cons string: of a string object of any
\* shape its text, of a root its name, of an attached string itself, of an
\* empty slot the empty text
ChildText(val) ==
    IF IsReservObject(val) THEN convert_reserv_object(val, call.pointer_size).value
    ELSE IF IsRootObject(val) THEN RootName(val)
    ELSE IF IsStr(val) THEN AttachedStrings[val.v + 1]
    ELSE <<>>

ConsConverted == done /\ call.fn = "convert_cons_one_byte_string"

\* C16: the conversion of a ConsOneByteString is the conversion of its left
\* child followed by the conversion of its right child, for children that are
\* one-byte strings, two-byte internalized strings, cons strings and roots.
C16_ConsConcatenation ==
    ConsConverted => ret = ChildText(call.left) \o ChildText(call.right)

\* a source name with every dot and every space replaced by an underscore
Underscored(chars) ==
    [i \in DOMAIN chars |-> IF chars[i] \in {".", " "} THEN "_" ELSE chars[i]]

\* the name slot of the function holds its source name: the string object of
\* the name, or the root empty_string
SourceNamed ==
    /\ done /\ call.fn \in {"SharedFunctionInfo", "_extract_sfi_name"}
    /\ call.slot \in {Obj(1), Root(<<"e", "m", "p", "t", "y", "_", "s", "t", "r", "i", "n", "g">>)}

SourceName == IF call.slot = Obj(1) THEN call.chars ELSE <<"e", "m", "p", "t", "y", "_", "s", "t", "r", "i", "n", "g">>

DisplayedName ==
    IF SourceName \in {<<>>, <<"e", "m", "p", "t", "y", "_", "s", "t", "r", "i", "n", "g">>}
    THEN <<"f", "u", "n", "c", "_">> \o ZFill(Dec(call.function_literal_id), 4)
    ELSE Underscored(SourceName)

\* C17: the name shown for a function, at its definition and where it is
\* referenced as a closure alike, is its source name with every dot and every
\* space replaced by an underscore, and func_NNNN (the function literal id,
\* zero-padded to 4 digits) for an empty source name or the root empty_string.
C17_DisplayedName ==
    SourceNamed => ret = Named(DisplayedName)

(***************************************************************************)
(* Properties of the conversion and the output of the functions.           *)
(***************************************************************************)
FunctionsRun == done /\ call.fn = "functions"

\* the function object as a SharedFunctionInfo
Decoded(func_obj) == SharedFunctionInfo(heap[func_obj.v], call.pointer_size)

\* decoding the function object fails
DecodingFails(func_obj) == Decoded(func_obj).raised # None

\* disassembling or reconstructing the body of the function fails
BodyFails(func_obj) ==
    ~DecodingFails(func_obj) /\ reconstruct_js_raised(Decoded(func_obj)) # None

\* the names of the functions the output has, in the order of the output
RECURSIVE HeadersOf(_)
HeadersOf(out) ==
    IF out = <<>> THEN <<>>
    ELSE IF DOMAIN Head(out) = {"fmt", "args"} /\ Head(out).fmt = <<"function %s(%s) {">>
    THEN <<Head(out).args[1]>> \o HeadersOf(Tail(out))
    ELSE HeadersOf(Tail(out))

Emitted == IF ret.stdout = None THEN <<>> ELSE HeadersOf(ret.stdout[1])

\* the names of the functions of the heap that neither step fails on, in the
\* order they were found
RECURSIVE SoundNames(_)
SoundNames(func_objects) ==
    IF func_objects = <<>> THEN <<>>
    ELSE IF DecodingFails(Head(func_objects)) \/ BodyFails(Head(func_objects))
    THEN SoundNames(Tail(func_objects))
    ELSE <<Decoded(Head(func_objects)).name>> \o SoundNames(Tail(func_objects))

\* C11: a function whose decoding, or whose disassembly or reconstruction,
\* fails is the only one left out: the run ends normally and the output has
\* every other function of the heap, in the order they were found.
C11_FunctionGranularity ==
    FunctionsRun => /\ ret.exit_status = <<0>>
                    /\ Emitted = SoundNames(call.func_objects)

(***************************************************************************)
(* Properties of the reconstruction of a function's instructions.          *)
(***************************************************************************)
\* the instruction the next step executes
Executed == instructions[1][ninstr + 1]

\* the text of each operator with a register operand
OperatorText ==
    [Add |-> <<"+">>, Sub |-> <<"-">>, Mul |-> <<"*">>, Div |-> <<"/">>, Mod |-> <<"%">>,
     BitwiseOr |-> <<"|">>, BitwiseXor |-> <<"^">>, BitwiseAnd |-> <<"&">>,
     ShiftLeft |-> <<"<", "<">>, ShiftRight |-> <<">", ">">>, ShiftRightLogical |-> <<">", ">", ">">>]

\* the register of operand byte v has no name of the scope: it is shown as
\* a<n> or r<n>
Anonymous(v) == is_raw(rname(_byte_to_register(v)))

\* the value of the register of operand byte v, as expressions show it
ValueOf(v) == get_reg(_byte_to_register(v))

\* left OP right
Infix(left, op_str, right) == left \o <<" ">> \o op_str \o <<" ">> \o right

\* an operator with a register operand: the register's value on the left,
\* the old accumulator (in parentheses where precedence asks for them) on
\* the right
OperatorStep ==
    \A v \in RegOperands :
        (Executed.base \in RegisterOperators /\ Executed.ops = v) =>
            acc' \in {Infix(ValueOf(v), OperatorText[Executed.base], acc),
                      Infix(ValueOf(v), OperatorText[Executed.base], Paren(acc))}

\* Star and Mov to an anonymous register: its value becomes the expression
\* stored (a compound accumulator in parentheses), and no statement is emitted
StoreStep ==
    \A v \in RegOperands :
        /\ (Executed.base = "Star" /\ Executed.ops = v /\ Anonymous(v)) =>
                /\ ValueOf(v)' \in {acc, Paren(acc)}
                /\ lines' = lines
        /\ \A src \in RegOperands :
                (Executed.base = "Mov" /\ Executed.ops = <<src, v>> /\ Anonymous(v)) =>
                    /\ ValueOf(v)' = ValueOf(src)
                    /\ lines' = lines

\* the instruction stores to the register of operand byte v
StoresTo(v) ==
    \/ Executed.base = "Star" /\ Executed.ops = v
    \/ Executed.base = "Mov" /\ Executed.ops[2] = v

\* no other instruction changes the value of an anonymous register
KeepStep ==
    \A v \in RegOperands : (Anonymous(v) /\ ~StoresTo(v)) => ValueOf(v)' = ValueOf(v)

AddExample ==
    <<Instruction("LdaSmi", 2), Instruction("Star", 251), Instruction("LdaSmi", 3),
      Instruction("Add", 251), Instruction("Return", <<>>)>>

\* LdaSmi [2]; Star r0; LdaSmi [3]; Add r0; Return of a function without
\* locals has been reconstructed
AddExampleDone == instructions = <<AddExample>> /\ stack_locals = <<>> /\ ninstr = Len(AddExample)

\* C14 as stated: an operator with a register operand makes the accumulator
\* <value of the register> OP <old accumulator>; the value of an anonymous
\* register is the expression that Star or Mov stored into it last, and the
\* store emits no statement; LdaSmi [2]; Star r0; LdaSmi [3]; Add r0; Return
\* yields the single statement return 2 + 3;.
C14_RegisterOperators ==
    [][/\ OperatorStep
       /\ StoreStep
       /\ KeepStep
       /\ AddExampleDone' =>
            lines' = <<indent \o <<"r", "e", "t", "u", "r", "n", " ", "2", " ", "+", " ", "3", ";">>>>]_vars

\* the instruction stores to the register of operand byte v, ToNumber counted
StoresValueTo(v) == StoresTo(v) \/ (Executed.base = "ToNumber" /\ Executed.ops = v)

\* ToNumber: the value of its register becomes the accumulator as it is, and
\* no statement is emitted
ToNumberStep ==
    \A v \in RegOperands :
        (Executed.base = "ToNumber" /\ Executed.ops = v) => (ValueOf(v)' = acc /\ lines' = lines)

\* no instruction but Star, Mov and ToNumber changes the value of an
\* anonymous register
KeepValueStep ==
    \A v \in RegOperands : (Anonymous(v) /\ ~StoresValueTo(v)) => ValueOf(v)' = ValueOf(v)

\* C14 as amended: an operator with a register operand makes the accumulator
\* <value of the register> OP <old accumulator>; the value of an anonymous
\* register is the expression that Star, Mov or ToNumber stored into it last
\* (ToNumber stores the accumulator as it is), and the store emits no
\* statement; LdaSmi [2]; Star r0; LdaSmi [3]; Add r0; Return yields the
\* single statement return 2 + 3;.
C14_StoredValues ==
    [][/\ OperatorStep
       /\ StoreStep
       /\ ToNumberStep
       /\ KeepValueStep
       /\ AddExampleDone' =>
            lines' = <<indent \o <<"r", "e", "t", "u", "r", "n", " ", "2", " ", "+", " ", "3", ";">>>>]_vars

\* C14 witness: the example has been reconstructed, with 2 stored in r0 and
\* the statement return 2 + 3; emitted.
C14_Witness ==
    /\ AddExampleDone
    /\ ValueOf(251) = <<"2">>
    /\ acc = <<"2", " ", "+", " ", "3">>
    /\ lines = <<indent \o <<"r", "e", "t", "u", "r", "n", " ", "2", " ", "+", " ", "3", ";">>>>

\* the constant-pool entry i, where the function has a pool and the pool
\* has the entry
PoolEntry(i) == cp[1][i + 1]

\* <reg>.<name> for a name that is a JavaScript identifier, <reg>["<name>"]
\* for another name
PropertyText(obj_name, name) ==
    IF _is_valid_identifier(name) THEN obj_name \o <<".">> \o name
    ELSE obj_name \o <<"[", "\"">> \o name \o <<"\"", "]">>

\* LdaNamedProperty reg, [i] with a string at entry i: the accumulator
\* becomes the access to the property of that name, an atom
PropertyStep ==
    \A v \in RegOperands : \A i \in 0 .. Len(NamePool) - 1 :
        (/\ Executed.base = "LdaNamedProperty"
         /\ Executed.ops = <<v, i>>
         /\ cp # None
         /\ PoolEntry(i).type = "str") =>
            /\ acc' = PropertyText(ValueOf(v), PoolEntry(i).value)
            /\ acc_prec' = _P_ATOM

\* the argument register a<j> of a function with n parameters is shown as
\* parameter n-1-j
ArgumentShown ==
    \A v \in RegOperands : \A j \in 0 .. Len(params) - 1 :
        _byte_to_register(v) = <<"a">> \o Dec(j) => ValueOf(v) = params[(Len(params) - 1 - j) + 1]

LengthExample == <<Instruction("LdaNamedProperty", <<2, 0>>), Instruction("Return", <<>>)>>

\* LdaNamedProperty a0, [0]; Return of a function with the sole parameter
\* arr and the constant "length" has been reconstructed
LengthExampleDone ==
    /\ instructions = <<LengthExample>>
    /\ params = <<<<"a", "r", "r">>>>
    /\ cp = <<NamePool>>
    /\ ninstr = Len(LengthExample)

\* C15: LdaNamedProperty reg, [i] makes the accumulator <reg>.<name> when the
\* constant-pool entry i is a string that is a JavaScript identifier and
\* <reg>["<name>"] when it is another string, with the precedence of an atom;
\* the argument register a<j> of a function with n parameters is shown as
\* parameter n-1-j; LdaNamedProperty a0, [0]; Return with the sole parameter
\* arr and the constant "length" yields return arr.length;.
C15_NamedProperty ==
    [][/\ PropertyStep
       /\ ArgumentShown
       /\ LengthExampleDone' =>
            lines' = <<indent \o <<"r", "e", "t", "u", "r", "n", " ", "a", "r", "r", ".", "l", "e", "n", "g", "t", "h", ";">>>>]_vars


(***************************************************************************)
(* Allocation in the chunks of the reservation table.                      *)
(***************************************************************************)
\* the chunks of the reservation table; the root object follows them in the
\* heap, the objects _read_object allocates follow the root object
ChunkIds == UNION {{reserv[s][i] : i \in DOMAIN reserv[s]} : s \in DOMAIN reserv}

AllocatedIds == {h \in DOMAIN heap : h > Cardinality(ChunkIds) + 1}

\* the addresses of chunk c that hold an allocated object
AllocatedAt(c) == {a \in DOMAIN heap[c].objects : IsReservObject(heap[c].objects[a])}

\* a second object has been allocated at the address of an earlier one
AllocationReplaced ==
    /\ event.kind = "_read_data" /\ event.branch = "_read_object" /\ ~event.raised
    /\ event.chunk # 0
    /\ event.address = event.cursor
    /\ \E h \in AllocatedIds :
          /\ h < event.new_obj
          /\ \A c \in ChunkIds : \A a \in AllocatedAt(c) : heap[c].objects[a].v # h

\* C21: within every chunk the addresses of the allocated objects increase
\* strictly in the order of allocation and are multiples of the pointer
\* size; every allocated object is still held by its chunk, none has been
\* replaced by a later allocation.
C21_AllocationOrder ==
    /\ \A c \in ChunkIds : \A a \in AllocatedAt(c) :
          /\ a % kPointerSize = 0
          /\ \A a2 \in AllocatedAt(c) :
                heap[c].objects[a].v < heap[c].objects[a2].v => a < a2
    /\ \A h \in AllocatedIds :
          \E c \in ChunkIds : \E a \in AllocatedAt(c) : heap[c].objects[a].v = h

(***************************************************************************)
(* The ring of hot objects.                                                *)
(***************************************************************************)
\* the step reads the byte b of the main payload on the given branch and
\* does not raise
Read(branch) ==
    /\ event'.kind = "_read_data" /\ event'.branch = branch /\ ~event'.raised

\* the step is a back-reference, of the main payload or of the deferred
\* loop, whose chunk exists
BackReferred ==
    /\ \/ Read("kBackref")
       \/ event'.kind = "deferred" /\ event'.branch = "object"
    /\ event'.promoted

\* the step stores obj in the ring at the index held before the step
PromotedAs(obj) ==
    /\ hots' = Assign(hots, last_hot_index, obj)
    /\ last_hot_index' = (last_hot_index + 1) % 8

RingStep ==
    /\ \/ UNCHANGED <<hots, last_hot_index>>
       \/ \E obj \in {hots'[i] : i \in DOMAIN hots'} : PromotedAs(obj)
    /\ BackReferred => PromotedAs(event'.back_obj)
    /\ Read("kRootArray") => PromotedAs(roots[event'.idx + 1])
    /\ Read("kHotObject") =>
          /\ Get(heap'[event'.obj], event'.insert_off) =
                GetOr(hots, event'.b - \h38, NoneValue)
          /\ stack'[Len(stack')].insert_off = event'.insert_off + kPointerSize
          /\ UNCHANGED <<hots, last_hot_index>>

\* C22: last_hot_index stays in 0..7 and the ring has at most 8 entries;
\* every step leaves the ring as it is or stores one object at
\* last_hot_index and advances it modulo 8, so that it is the number of
\* promotions modulo 8; a back-reference whose chunk exists and a varint
\* root-array read store their object at the index held before; the byte
\* 0x38 + i inserts the object in slot i of the ring at the insertion
\* offset, advances the insertion offset by the pointer size and leaves the
\* ring as it is.
C22_HotRing ==
    /\ [](last_hot_index \in 0 .. 7 /\ DOMAIN hots \subseteq 0 .. 7)
    /\ [][RingStep]_vars

\* the ring has wrapped around: hot object 0 is read after nine promotions
C22_Witness ==
    /\ event.kind = "_read_data" /\ event.branch = "kHotObject"
    /\ event.b = \h38
    /\ last_hot_index = 1
    /\ hots[0] = roots[10]
    /\ Get(heap[event.obj], event.insert_off) = roots[10]

(***************************************************************************)
(* Repeats and raw data.                                                   *)
(***************************************************************************)
\* the last step copied a run of raw data of at least one word into object o
RawRunInto(o) ==
    /\ event.kind = "_read_data" /\ ~event.raised
    /\ event.branch \in {"kFixedRawData", "kVariableRawData"}
    /\ event.obj = o
    /\ Len(event.raw_data) >= 4

\* the address of the slot of object o written last: the last word of a run
\* of raw data, the address of any other write
LastWritten(o) ==
    IF RawRunInto(o) THEN event.insert_off + 4 * ((Len(event.raw_data) \div 4) - 1)
    ELSE heap[o]._last_add_address

Repeated ==
    Read("kVariableRepeat") \/ Read("kFixedRepeat")

RepeatStep ==
    Repeated =>
        /\ \A i \in 0 .. event'.repeats - 1 :
              Get(heap'[event'.obj], event'.insert_off + i * kPointerSize) =
                  Get(heap[event'.obj], LastWritten(event'.obj))
        /\ stack'[Len(stack')].insert_off =
              event'.insert_off + event'.repeats * kPointerSize

\* C23: a repeat byte with count k at insertion offset p writes into the k
\* slots p, p + pointer_size, ... the value of the slot written last into
\* the enclosing object, which after a run of raw data of several words is
\* the run's last word, and leaves the insertion offset at
\* p + k * pointer_size.
C23_Repeat == [][RepeatStep]_vars

\* byte i of the little-endian layout of the word w
LittleEndianByte(w, i) ==
    IF i = 0 THEN w[2] % 256
    ELSE IF i = 1 THEN w[2] \div 256
    ELSE IF i = 2 THEN w[1] % 256
    ELSE w[1] \div 256

\* the last step copied the whole run of raw data it was asked for
RawRunCopied ==
    /\ event.kind = "_read_data" /\ ~event.raised
    /\ event.branch \in {"kFixedRawData", "kVariableRawData"}
    /\ Len(event.raw_data) = event.size_in_bytes

\* C24: after a run of n raw bytes was copied to insertion offset p, the
\* 4-byte slots at p, p + 4, ... read as little-endian words give the n bytes
\* of the run in order; no byte is dropped.
C24_RawRoundTrip ==
    RawRunCopied =>
        \A j \in 0 .. event.size_in_bytes - 1 :
            /\ IsInt(Get(heap[event.obj], event.insert_off + 4 * (j \div 4)))
            /\ LittleEndianByte(Get(heap[event.obj], event.insert_off + 4 * (j \div 4)).w, j % 4)
                  = event.raw_data[j + 1]

(***************************************************************************)
(* The dispatch of a payload byte.                                         *)
(***************************************************************************)
\* the combinations of _read_data that take the byte b
Matching(b) == {i \in DOMAIN Combinations : Matches(b, Combinations[i])}

\* the loop of _read_data has dispatched a byte
DispatchedByte == event.kind = "_read_data"

\* C25: at most one of the combinations _read_data tries matches the byte it
\* dispatches, and a byte that matches a combination is none of the reserved
\* control bytes, none of the special opcodes; so the branch taken is that of
\* the one matching combination whatever the order of the tries.
C25_Unambiguous ==
    DispatchedByte =>
        /\ Cardinality(Matching(event.b)) <= 1
        /\ \A i \in Matching(event.b) :
              /\ event.b \notin ReservedControlBytes
              /\ SpecialBranch(event.b) = "raise"
              /\ FirstMatch(event.b) = i
              /\ event.branch = SpaceDataBranch(event.b)

\* the byte 0x6D, taken by the last but two of the combinations only
C25_Witness ==
    /\ DispatchedByte
    /\ event.b = \h6D
    /\ Matching(event.b) = {12}
    /\ event.branch = "kAttachedReference"

(***************************************************************************)
(* The deferred objects.                                                   *)
(***************************************************************************)
\* _read_data is filling the object of a deferred entry
InDeferredEntry ==
    /\ stack # <<>>
    /\ stack[1].caller = "_deserialize_deferred_objects"

\* the objects on which a call of _read_data is in progress
BeingRead == {stack[i].obj : i \in DOMAIN stack}

DeferredStep ==
    \* the functions are collected when the kSynchronize of the deferred
    \* loop, which follows the main payload, has been read
    /\ (pc' = "results" /\ pc # "results") =>
          /\ pc = "_deserialize_deferred_objects"
          /\ stack = <<>>
          /\ event'.kind = "deferred" /\ event'.b = \h18
    \* an entry starts at the pointer size of an object allocated before
    /\ (event'.kind = "deferred" /\ event'.branch = "object" /\ stack' # <<>>) =>
          /\ Len(stack') = 1
          /\ stack'[1].obj = event'.back_obj.v
          /\ stack'[1].insert_off = kPointerSize
          /\ event'.back_obj.v \in AllocatedIds
          /\ heap' = heap
    \* the entry writes into its object, behind slot 0, and into the objects
    \* it allocates
    /\ InDeferredEntry =>
          /\ \A h \in DOMAIN heap :
                heap'[h] # heap[h] => h \in ChunkIds \cup BeingRead
          /\ Get(heap'[stack[1].obj], 0) = Get(heap[stack[1].obj], 0)
          /\ \A i \in DOMAIN stack : i > 1 => stack[i].obj # stack[1].obj
          /\ pc' # "results"

\* C26: the functions are collected only after the main payload was read and
\* the deferred loop was ended by its kSynchronize; a deferred entry reads
\* into the object its back-reference designates, which was allocated
\* before, from insertion offset pointer_size on, and never changes slot 0
\* of that object.
C26_Deferred == [][DeferredStep]_vars

\* a deferred entry has written behind slot 0 of its object, past a
\* kSynchronize that did not end the deferred loop
C26_Witness ==
    /\ pc = "_deserialize_deferred_objects"
    /\ event.kind = "return"
    /\ \E h \in AllocatedIds :
          /\ Get(heap[h], 0) = roots[2]
          /\ IsReservObject(Get(heap[h], kPointerSize))
          /\ Get(heap[Get(heap[h], kPointerSize).v], 0) = roots[6]

(***************************************************************************)
(* The chunk table of the header.                                          *)
(***************************************************************************)
\* parse has read the header and is about to read the payload
HeaderParsed == event.kind = "parse" /\ pc = "_read_data"

\* entry i of the chunk table, from 0, and its bit 31
TableEntry(i) == read_uint32(data, 40 + 4 * i)

EndsSpace(i) == TableEntry(i)[1] >= \h8000

\* the number of entries before entry i that have bit 31 set
SpaceIndex(i) == Cardinality({j \in 0 .. i - 1 : EndsSpace(j)})

\* C27: after the header was parsed, the chunk of entry i of the chunk table
\* is in the list of the space whose index is the number of earlier entries
\* with bit 31 set, behind the chunks of the earlier entries of that space,
\* with the low 31 bits of the entry as its size; that index is one of
\* NEW_SPACE (0) .. LO_SPACE (4); the current chunk index of every space of
\* the table is 0.
C27_ChunkTable ==
    HeaderParsed =>
        /\ \A i \in 0 .. ToInt(read_uint32(data, 20)) - 1 :
              /\ SpaceIndex(i) \in NEW_SPACE .. LO_SPACE
              /\ <<SpaceIndex(i)>> \in DOMAIN reserv
              /\ LET before == Cardinality({j \in 0 .. i - 1 : SpaceIndex(j) = SpaceIndex(i)})
                 IN  /\ Len(reserv[<<SpaceIndex(i)>>]) > before
                     /\ reserv[<<SpaceIndex(i)>>][before + 1] = i + 1
              /\ heap[i + 1].size = ToInt(And32(TableEntry(i), <<\h7FFF, \hFFFF>>))
        /\ \A s \in DOMAIN reserv : GetOr(last_chunk_index, s, -1) = 0

(***************************************************************************)
(* The operands of an instruction.                                         *)
(***************************************************************************)
\* the width of the operands of the pass: 1, 2 after Wide, 4 after ExtraWide
Scale ==
    IF ~Prefixed THEN 1 ELSE IF call.bytecode[Cursor + 1] = \h00 THEN 2 ELSE 4

\* the width of an operand of type op_type at scale s
WidthOf(op_type, s) ==
    IF op_type = "kRuntimeId" THEN 2
    ELSE IF op_type = "kRegRange" THEN 2 * s
    ELSE s

RECURSIVE SumOfWidths(_, _)
SumOfWidths(operand_types, s) ==
    IF operand_types = <<>> THEN 0
    ELSE WidthOf(Head(operand_types), s) + SumOfWidths(Tail(operand_types), s)

\* the bytes of the instruction of the pass: prefix, opcode and operands
InstructionBytes ==
    (AfterOpcode - Cursor) + SumOfWidths(OPCODES[OpcodeByte].operand_types, Scale)

\* the pass decodes an opcode of the table and the buffer holds all the
\* bytes of its operands
AtWholeInstruction ==
    /\ Disassembling /\ Cursor < Len(call.bytecode)
    /\ Prefixed \/ call.bytecode[Cursor + 1] \notin {\h00, \h01}
    /\ OpcodeByte \in DOMAIN OPCODES
    /\ Cursor + InstructionBytes <= Len(call.bytecode)

\* the pass consumes the bytes of its instruction
WidthsConsumed ==
    AtWholeInstruction =>
        /\ ret'.pos = Cursor + InstructionBytes
        /\ Len(ret'.instructions) = Len(Appended) + 1
        /\ ret'.instructions[Len(ret'.instructions)].raw_bytes =
              SubSeq(call.bytecode, Cursor + 1, Cursor + InstructionBytes)

ShownOperand(op_type, val, w) ==
    IF op_type = "kImm" /\ w < 4 /\ Number(val) > (2 ^ (8 * w - 1)) - 1
    THEN <<"[", "-">> \o Dec(2 ^ (8 * w) - Number(val)) \o <<"]">>
    ELSE IF op_type = "kImm" /\ w = 4 /\ ~Small(val)
    THEN <<"[", "-">> \o DecOf(<<65535 - val[1] + ((65536 - val[2]) \div 65536),
                                  (65536 - val[2]) % 65536>>) \o <<"]">>
    ELSE IF op_type = "kFlag8" THEN <<"#">> \o DecOf(val)
    ELSE <<"[">> \o DecOf(val) \o <<"]">>

RECURSIVE ShownOperands(_, _, _)
\* the texts of the operands of the given types, s bytes wide each, from at on
ShownOperands(operand_types, at, s) ==
    IF operand_types = <<>> THEN <<>>
    ELSE <<ShownOperand(Head(operand_types), unpack(call.bytecode, at, s), s)>>
             \o ShownOperands(Tail(operand_types), at + s, s)

\* the operands of the instruction of the pass are immediates, indices and
\* flags, at least one of them
AtNumericOperands ==
    /\ AtWholeInstruction
    /\ OPCODES[OpcodeByte].operand_types # <<>>
    /\ \A i \in DOMAIN OPCODES[OpcodeByte].operand_types :
          OPCODES[OpcodeByte].operand_types[i] \in {"kImm", "kIdx", "kUImm", "kFlag8"}

NumericShown ==
    AtNumericOperands =>
        ret'.instructions[Len(ret'.instructions)].operands =
            Join(<<" ">>, ShownOperands(OPCODES[OpcodeByte].operand_types, AfterOpcode, Scale))

\* C29: an Imm operand of 1, 2 or 4 bytes is shown sign-extended by its
\* width, the value minus 2^(8 * width) when its top bit is set; index,
\* unsigned-immediate and flag operands are shown unsigned.
C29_SignExtension == [][NumericShown]_vars

\* the operator each handler writes between its operands
OperatorSymbol ==
    [Add |-> <<"+">>, Sub |-> <<"-">>, Mul |-> <<"*">>, Div |-> <<"/">>, Mod |-> <<"%">>,
     BitwiseOr |-> <<"|">>, BitwiseXor |-> <<"^">>, BitwiseAnd |-> <<"&">>,
     ShiftLeft |-> <<"<", "<">>, ShiftRight |-> <<">", ">">>,
     ShiftRightLogical |-> <<">", ">", ">">>,
     AddSmi |-> <<"+">>, SubSmi |-> <<"-">>, MulSmi |-> <<"*">>, DivSmi |-> <<"/">>,
     ModSmi |-> <<"%">>, BitwiseOrSmi |-> <<"|">>, BitwiseXorSmi |-> <<"^">>,
     BitwiseAndSmi |-> <<"&">>, ShiftLeftSmi |-> <<"<", "<">>, ShiftRightSmi |-> <<">", ">">>,
     ShiftRightLogicalSmi |-> <<">", ">", ">">>,
     TestEqual |-> <<"=", "=">>, TestEqualStrict |-> <<"=", "=", "=">>,
     TestEqualStrictNoFeedback |-> <<"=", "=", "=">>, TestLessThan |-> <<"<">>,
     TestGreaterThan |-> <<">">>, TestLessThanOrEqual |-> <<"<", "=">>,
     TestGreaterThanOrEqual |-> <<">", "=">>,
     TestInstanceOf |-> <<"i", "n", "s", "t", "a", "n", "c", "e", "o", "f">>,
     TestIn |-> <<"i", "n">>,
     TestUndetectable |-> <<"=", "=">>, TestNull |-> <<"=", "=", "=">>,
     TestUndefined |-> <<"=", "=", "=">>]

\* the precedence of each handler's operator
OperatorPrecedence ==
    [Add |-> _P_ADD, Sub |-> _P_ADD, Mul |-> _P_MUL, Div |-> _P_MUL, Mod |-> _P_MUL,
     BitwiseOr |-> _P_OR, BitwiseXor |-> _P_XOR, BitwiseAnd |-> _P_AND,
     ShiftLeft |-> _P_SHIFT, ShiftRight |-> _P_SHIFT, ShiftRightLogical |-> _P_SHIFT,
     AddSmi |-> _P_ADD, SubSmi |-> _P_ADD, MulSmi |-> _P_MUL, DivSmi |-> _P_MUL,
     ModSmi |-> _P_MUL, BitwiseOrSmi |-> _P_OR, BitwiseXorSmi |-> _P_XOR,
     BitwiseAndSmi |-> _P_AND, ShiftLeftSmi |-> _P_SHIFT, ShiftRightSmi |-> _P_SHIFT,
     ShiftRightLogicalSmi |-> _P_SHIFT,
     TestEqual |-> _P_EQ, TestEqualStrict |-> _P_EQ, TestEqualStrictNoFeedback |-> _P_EQ,
     TestLessThan |-> _P_REL, TestGreaterThan |-> _P_REL, TestLessThanOrEqual |-> _P_REL,
     TestGreaterThanOrEqual |-> _P_REL, TestInstanceOf |-> _P_REL, TestIn |-> _P_REL,
     TestUndetectable |-> _P_EQ, TestNull |-> _P_EQ, TestUndefined |-> _P_EQ]

\* the literal a comparison of the accumulator is made with
ComparedLiteral ==
    [TestUndetectable |-> <<"n", "u", "l", "l">>, TestNull |-> <<"n", "u", "l", "l">>,
     TestUndefined |-> <<"u", "n", "d", "e", "f", "i", "n", "e", "d">>]

\* the accumulator as the left operand of the executed operator: in
\* parentheses when its precedence is lower than the operator's
AsLeftOperand ==
    IF acc_prec < OperatorPrecedence[Executed.base] THEN Paren(acc) ELSE acc

\* the accumulator as the right operand of the executed operator: in
\* parentheses when its precedence is lower than the operator's, or equal
\* and the operator is not one of + * | & ^
AsRightOperand ==
    IF \/ acc_prec < OperatorPrecedence[Executed.base]
       \/ /\ acc_prec = OperatorPrecedence[Executed.base]
          /\ OperatorSymbol[Executed.base] \notin {<<"+">>, <<"*">>, <<"|">>, <<"&">>, <<"^">>}
    THEN Paren(acc) ELSE acc

\* the executed instruction is one of bases, and it emits left OP right with
\* the accumulator in parentheses as the rule asks, leaving OP's precedence
Parenthesized(bases) ==
    Executed.base \in bases =>
        /\ acc_prec' = OperatorPrecedence[Executed.base]
        /\ Executed.base \in RegisterOperators \cup TestOperators =>
                acc' = Infix(ValueOf(Executed.ops), OperatorSymbol[Executed.base], AsRightOperand)
        /\ Executed.base \in SmiOperators =>
                acc' = Infix(AsLeftOperand, OperatorSymbol[Executed.base], Dec(Executed.ops))
        /\ Executed.base \in TestLiterals =>
                acc' = Infix(AsLeftOperand, OperatorSymbol[Executed.base],
                             ComparedLiteral[Executed.base])

\* C30: every handler that emits left OP right from the accumulator (the
\* arithmetic, bitwise and shift operators, their Smi variants, and the
\* comparison and test operators) wraps an accumulator used as left operand
\* when its precedence is lower than OP's, wraps an accumulator used as right
\* operand when its precedence is lower than OP's or equal with OP not one of
\* + * | & ^, and leaves OP's precedence as the accumulator's.
C30_Parenthesization ==
    [][Parenthesized(RegisterOperators \cup SmiOperators \cup TestOperators \cup TestLiterals)]_vars


(***************************************************************************)
(* Calls, stores to registers and TestTypeOf in reconstruct_js.            *)
(***************************************************************************)

\* the instructions that read the accumulator: Star, the binary operators on
\* a register or an immediate, the unary operators, the tests, the
\* conditional jumps, the stores, Return, the throws and the coercions
ReadsAccumulator ==
    {"Star", "Return", "Throw", "ReThrow", "LogicalNot", "ToBooleanLogicalNot", "TypeOf",
     "Inc", "Dec", "ToNumber", "ToName", "ToObject", "ToBoolean", "ToNumeric", "ToString"}
    \cup RegisterOperators \cup SmiOperators \cup TestNames \cup JumpIfNames
    \cup (StaNames \ {"StackCheck"})

\* a call is executed: its expression becomes one more statement unless the
\* next instruction reads the accumulator, in which case no line is added
CallFlushed ==
    Executed.base \in _CALL_OPCODES =>
        lines' = IF next_base \in ReadsAccumulator THEN lines
                 ELSE Append(lines, indent \o acc' \o <<";">>)

\* C31: after a call-producing instruction the call expression is emitted as
\* a statement of its own exactly once when the next instruction does not
\* consume the accumulator (also when the call is the last instruction), and
\* is not emitted when the next instruction is a Star, a binary operator, a
\* unary operator, a Test*, a conditional jump, a store, Return, Throw or a
\* To* coercion; an instruction that does not read the accumulator is never
\* taken for a consumer.
C31_CallFlush == [][CallFlushed]_vars

\* the values of the registers r_(s+lo) .. r_(s+hi), r_s being the register
\* of operand byte start: the operand byte of a register falls as its
\* number grows
RangeValue(start, lo, hi) == [i \in 1 .. hi - lo + 1 |-> ValueOf(start - (lo + i - 1))]

\* callee(arguments)
Called(callee, arguments) == callee \o <<"(">> \o CommaJoin(arguments) \o <<")">>

\* a call with a range of at least one register that starts at an r register
AtRangeCall ==
    /\ Executed.base \in RangeCalls
    /\ Executed.ops[2] \in 128 .. 251
    /\ Executed.ops[3] >= 1

\* the call passes every register of the range, all but the first, or all
\* but the last
RangePassed ==
    AtRangeCall =>
        /\ Executed.base = "CallUndefinedReceiver" =>
              acc' = Called(ValueOf(Executed.ops[1]),
                            RangeValue(Executed.ops[2], 0, Executed.ops[3] - 1))
        /\ Executed.base \in {"CallProperty", "CallAnyReceiver", "CallWithSpread"} =>
              acc' = Called(ValueOf(Executed.ops[1]),
                            RangeValue(Executed.ops[2], 1, Executed.ops[3] - 1))
        /\ Executed.base \in {"Construct", "ConstructWithSpread"} =>
              acc' = <<"n", "e", "w", " ">>
                       \o Called(ValueOf(Executed.ops[1]),
                                 RangeValue(Executed.ops[2], 0, Executed.ops[3] - 2))

\* C32: for a call with a range of n >= 1 registers from r_s on,
\* CallUndefinedReceiver passes the values of r_s .. r_(s+n-1) in order,
\* CallProperty, CallAnyReceiver and CallWithSpread leave out the first (the
\* receiver) and pass the other n-1, Construct and ConstructWithSpread leave
\* out the last (new.target) and pass the first n-1.
C32_RangeArguments == [][RangePassed]_vars

\* TestTypeOf with a flag of the literal list: the accumulator becomes
\* typeof <acc> === "<literal>" of precedence EQ, and the loop goes on
TypeOfTested ==
    (Executed.base = "TestTypeOf" /\ Executed.ops \in 0 .. 7) =>
        /\ acc' = <<"t", "y", "p", "e", "o", "f", " ">> \o acc
                    \o <<" ", "=", "=", "=", " ", "\"">>
                    \o TYPEOF_LITERALS[Executed.ops + 1] \o <<"\"">>
        /\ acc_prec' = _P_EQ
        /\ ninstr' = ninstr + 1
        /\ exc' = None

\* C33: TestTypeOf with flag f in 0..7 sets the accumulator to
\* typeof <acc> === "<L>", L the f-th of number, string, symbol, boolean,
\* undefined, function, object, other, with precedence EQ, and the
\* reconstruction of the function goes on with the next instruction.
C33_TestTypeOf == [][TypeOfTested]_vars

RECURSIVE Depth(_, _)
\* the number of parentheses open after the first i characters of t
Depth(t, i) ==
    IF i = 0 THEN 0
    ELSE Depth(t, i - 1) + (IF t[i] = "(" THEN 1 ELSE IF t[i] = ")" THEN -1 ELSE 0)

\* t is one pair of parentheses around an expression
Enclosed(t) ==
    /\ Len(t) >= 2
    /\ t[1] = "("
    /\ t[Len(t)] = ")"
    /\ \A i \in 1 .. Len(t) - 1 : Depth(t, i) > 0

\* the anonymous registers the register map has an expression for
StoredAnonymous ==
    {v \in DOMAIN val_regs : Anonymous(v) /\ rname(_byte_to_register(v)) \in DOMAIN regs}

\* C38: every expression the register map holds for an anonymous register
\* is atomic or enclosed in parentheses, whichever of Star, Mov and ToNumber
\* wrote it, so that Ldar and register operands, which take the value with
\* precedence ATOM, never regroup an expression computed before.
C38_RegisterMap ==
    \A v \in StoredAnonymous :
        IsAtom(val_regs[v].t) \/ Enclosed(regs[rname(_byte_to_register(v))])

(***************************************************************************)
(* The records of disassemble_bytecode and the buffer.                     *)
(***************************************************************************)
\* C39: when disassemble_bytecode has returned, on any buffer (one that ends
\* inside the operands of an instruction or with a prefix byte included),
\* the offsets of the records grow strictly, every record starts where the
\* one before it ended, and the raw bytes of the records, one after the
\* other, are the buffer: every byte belongs to exactly one instruction.
C39_BufferCovered ==
    (call.fn = "disassemble_bytecode" /\ done) =>
        /\ \A i \in DOMAIN Appended :
              /\ Appended[i].offset = Len(RawBytes(SubSeq(Appended, 1, i - 1)))
              /\ i > 1 => Appended[i - 1].offset < Appended[i].offset
        /\ RawBytes(Appended) = call.bytecode

(***************************************************************************)
(* The main pipeline: raw data, alignment, chunks, termination.            *)
(***************************************************************************)
\* the last step of _read_data took a run of raw data of either form
RawRunTaken ==
    /\ event.kind = "_read_data" /\ ~event.raised
    /\ event.branch \in {"kFixedRawData", "kVariableRawData"}

\* C40: after 0x1A with byte count n at insertion offset p, as after
\* 0xC0..0xDF, the insertion offset of the enclosing object is at least
\* p + n, so that the next item is written past the slots of the run.
C40_RawAdvance ==
    RawRunTaken =>
        /\ Top.obj = event.obj
        /\ Top.insert_off >= event.insert_off + event.size_in_bytes

\* where the payload starts: behind the header, the chunk table and the code
\* stubs, rounded up to the pointer size
PayloadStart ==
    _pointer_size_align(40 + 4 * ToInt(read_uint32(data, 20)) + 4 * ToInt(read_uint32(data, 24)))

InLoops == pc \in {"_read_data", "_deserialize_deferred_objects"}

\* a pass of the loop of _read_data or of the deferred loop that got its byte
\* leaves the reader at least one byte further, and no step of parse moves
\* the reader back
ReaderAdvanced ==
    InLoops =>
        /\ pos' >= pos
        /\ event'.kind \in {"_read_data", "deferred"} => pos' >= pos + 1

\* every object being read but the root was opened by a byte of the payload
NestingBounded == InLoops => Len(stack) <= 1 + (pos - PayloadStart)

\* the bytes read_byte can still return: those left of the file, or those
\* left to draw
BytesLeft == IF FromFile(feed) THEN Len(feed.bytes) ELSE feed.left

\* what is left to do: two for every byte left and one for every object
\* that is being read
Variant == 2 * BytesLeft + Len(stack)

\* a step of either loop ends parse or leaves less to do than there was
VariantDecreased ==
    (InLoops /\ pc' \in {"_read_data", "_deserialize_deferred_objects"}) =>
        (Variant' < Variant /\ Variant' >= 0)

\* C36: every pass of the main payload loop and of the deferred loop moves
\* the reader on by at least one byte and the reader never moves back from
\* one pass to the next; no more objects are nested than payload bytes were
\* read; every step leaves less to do, and in the loops there is always a
\* step to take: parse comes to its end, returning or raising, after at
\* most as many passes as the payload has bytes.
C36_Terminates ==
    /\ [][ReaderAdvanced /\ VariantDecreased]_vars
    /\ [](NestingBounded /\ (InLoops => ENABLED Next))

\* parse has returned after the deferred loop read an entry with an object
\* nested in it
C36_Witness ==
    /\ pc = "results"
    /\ pos >= PayloadStart + 6
    /\ \E h \in AllocatedIds :
          /\ IsReservObject(Get(heap[h], kPointerSize))
          /\ Get(heap[Get(heap[h], kPointerSize).v], 0) = roots[6]

\* the last step allocated a new object in a chunk while the next alignment
\* was DoubleAligned or DoubleUnaligned
AllocatedDouble ==
    /\ AllocatedUnaligned
    /\ event.alignment \in {<<kDoubleAligned>>, <<kDoubleUnaligned>>}

\* fill_to_align of the write cursor the chunk had before the allocation
PreFill == _get_fill_to_align(event.alignment[1], kPointerSize, event.cursor)

\* the filler bytes reserved for an allocation under a double alignment
MaxFill == 8 - kPointerSize

\* the addresses of the chunk written at or behind its old write cursor:
\* those of the new object and of the fillers of the allocation
WrittenBy(chunk) == {a \in DOMAIN chunk.objects : a >= event.cursor}

\* where the rule lets the allocation write: the leading filler at the
\* cursor if pre_fill > 0, the object behind it, and the trailing filler
\* behind the object if max_fill - pre_fill > 0
RuledAddresses ==
    {event.cursor + PreFill}
    \cup (IF PreFill > 0 THEN {event.cursor} ELSE {})
    \cup (IF MaxFill - PreFill > 0 THEN {event.cursor + PreFill + event.size} ELSE {})

\* C35: an object of size s allocated at write cursor a under DoubleAligned
\* or DoubleUnaligned, with pre_fill = fill_to_align(a): a filler is stored
\* at a only if pre_fill > 0, the object is stored at a + pre_fill, a
\* trailing filler at a + pre_fill + s only if max_fill - pre_fill > 0, no
\* filler lies in the bytes [a + pre_fill, a + pre_fill + s) of the object,
\* under DoubleAligned the object's address is a multiple of 8, and the next
\* alignment is Word afterwards.
C35_AlignedAllocation ==
    AllocatedDouble =>
        /\ event.address = event.cursor + PreFill
        /\ Get(heap[event.chunk], event.address) = Value("obj", event.new_obj)
        /\ WrittenBy(heap[event.chunk]) \subseteq RuledAddresses
        /\ \A a \in WrittenBy(heap[event.chunk]) :
              (event.cursor + PreFill <= a /\ a < event.cursor + PreFill + event.size)
                  => a = event.cursor + PreFill
        /\ event.alignment = <<kDoubleAligned>> => event.address % 8 = 0
        /\ next_alignment = <<kWordAligned>>

\* C37: the write cursor of every chunk is at most the size the header
\* declares for the chunk, and every object allocated in a chunk lies within
\* the chunk: no allocation goes past the declared size unnoticed.
C37_ChunkCapacity ==
    \A c \in ChunkIds :
        /\ heap[c].offset <= heap[c].size
        /\ \A a \in AllocatedAt(c) : a + heap[heap[c].objects[a].v].size <= heap[c].size

\* how many times ScopeInfo.__init__ was entered for the source object
Decodings(obj) == Cardinality({i \in DOMAIN ret.decoded : ret.decoded[i] = obj})

\* the scope objects being decoded, from the outermost call inwards
Decoding == SelectSeq(ret.stack, LAMBDA frame : frame.fn = "ScopeInfo")

\* every reference made so far leads to the node of the object in its slot
SharesNodes ==
    /\ \A i, j \in DOMAIN ret.nodes : ret.nodes[i].obj = ret.nodes[j].obj => i = j
    /\ \A i \in DOMAIN ret.nodes :
          LET outer_obj == OuterObject(heap[ret.nodes[i].obj], call.pointer_size)
          IN  IF IsReservObject(outer_obj)
              THEN ret.nodes[i].outer_scope # None /\ ret.nodes[ret.nodes[i].outer_scope[1]].obj = outer_obj.v
              ELSE ret.nodes[i].outer_scope = None
    /\ \A i \in DOMAIN ret.functions :
          LET scope_obj == get_aligned_object(heap[ret.functions[i].obj], 3 * call.pointer_size)
              outer_scope_obj == get_aligned_object(heap[ret.functions[i].obj], 4 * call.pointer_size)
          IN  /\ IsReservObject(scope_obj) =>
                    /\ ret.functions[i].scope_info # None
                    /\ ret.nodes[ret.functions[i].scope_info[1]].obj = scope_obj.v
              /\ IsReservObject(outer_scope_obj) =>
                    /\ ret.functions[i].outer_scope_info # None
                    /\ ret.nodes[ret.functions[i].outer_scope_info[1]].obj = outer_scope_obj.v

\* C34: in a run of the conversion with the scope cache every ScopeInfo
\* source object is decoded at most once, the functions and the outer-scope
\* links that point to one source object share one decoded node, a scope that
\* is still being decoded is not descended into a second time, and the
\* decoding ends without RecursionError with every function converted, also
\* when the outer-scope links form a cycle.
C34_ScopeCache ==
    (call.fn = "scopes" /\ ret # None) =>
        /\ \A obj \in ScopeIds : Decodings(obj) <= 1
        /\ SharesNodes
        /\ \A i, j \in DOMAIN Decoding : Decoding[i].obj = Decoding[j].obj => i = j
        /\ \A i \in DOMAIN ret.stderr : ret.stderr[i].args # <<RecursionError>>
        /\ done => Len(ret.functions) = Len(call.func_objects)

=============================================================================
